---- MODULE Spec2Model ----
(***************************************************************************)
(* A model of the portfolio server src/app.js: the process-wide held       *)
(* document (portfolioData), the persisted document (the Portfolio         *)
(* collection, one document 'portfolio_data'), the asset store             *)
(* (Cloudinary) and the request handlers, each cut at its awaits.          *)
(***************************************************************************)
EXTENDS Integers, Sequences, FiniteSets, TLC

\* Requests the server accepts in one behaviour.
MaxReq == 3

\* The requests that can be in flight together.
Slots == {1, 2}

\* Document objects that can be alive together: the held one and one per
\* request that still references an older one.
ObjIds == {1, 2, 3}

NoObj == 0

-----------------------------------------------------------------------------
(* Strings.  TLC's strings are atoms, so every string the code looks into  *)
(* (a URL, a route parameter, a stored id) has its characters in a table.  *)

NoUrl == ""

\* req.file.path of the k-th upload: Cloudinary's secure_url.
UploadUrls == <<"up1", "up2", "up3", "up4", "up5", "up6">>

\* URLs of the seed document that are Cloudinary URLs with a version segment,
\* without one, and URLs of files served from public/.
VersionedUrls == {"Ucar0", "Upho", "Ue0", "Ue1", "Ue2", "Uc1", "Ug1", "Ui1", "Ui2"}
UnversionedUrls == {"Usum"}
LocalUrls == {"Lcar1", "Lg2", "Li3"}
SeedStoreUrls == VersionedUrls \cup UnversionedUrls

Digits == {"0", "1", "2", "3", "4", "5", "6", "7", "8", "9"}

DigitVal(c) ==
    CASE c = "0" -> 0 [] c = "1" -> 1 [] c = "2" -> 2 [] c = "3" -> 3
      [] c = "4" -> 4 [] c = "5" -> 5 [] c = "6" -> 6 [] c = "7" -> 7
      [] c = "8" -> 8 [] c = "9" -> 9

\* The characters of a URL; "cloudinary.com" and "upload" stand as one
\* character each, and so does a path segment without dots or slashes.
UrlChars(u) ==
    CASE u = NoUrl -> <<>>
      [] u \in UnversionedUrls ->
            <<"cloudinary.com", "/", "upload", "/", u, ".", "png">>
      [] u \in LocalUrls -> <<"/", "images", "/", u, ".", "jpg">>
      [] OTHER ->
            <<"cloudinary.com", "/", "upload", "/", "v", "1", "/", u, ".", "png">>

\* The characters of a route parameter or of a stored id.
Chars(s) ==
    CASE s = "" -> <<>>
      [] s = "0" -> <<"0">>
      [] s = "1" -> <<"1">>
      [] s = "2" -> <<"2">>
      [] s = "5" -> <<"5">>
      [] s = "1x" -> <<"1", "x">>
      [] s = "-1" -> <<"-", "1">>
      [] s = "7u" -> <<"7", "u">>
      [] s = "0u" -> <<"0", "u">>
      [] s = "ua" -> <<"u", "a">>
      [] OTHER -> <<s>>

\* String.prototype.includes, for a one-character needle.
Includes(s, c) == \E i \in 1..Len(s) : s[i] = c

\* String.prototype.lastIndexOf (0-based, -1 when absent).
LastIndexOf(s, c) ==
    IF Includes(s, c)
    THEN (CHOOSE i \in 1..Len(s) : s[i] = c /\ \A j \in (i+1)..Len(s) : s[j] # c) - 1
    ELSE -1

\* String.prototype.substring(0, e): a negative e counts as 0.
Substring0(s, e) == SubSeq(s, 1, IF e < 0 THEN 0 ELSE e)

\* The length of the longest run of digits of s that starts at position i.
RECURSIVE digitRun(_, _)
digitRun(s, i) ==
    IF i <= Len(s) /\ s[i] \in Digits THEN 1 + digitRun(s, i + 1) ELSE 0

RECURSIVE digitsValue(_, _, _, _)
digitsValue(s, i, n, acc) ==
    IF n = 0 THEN acc ELSE digitsValue(s, i + 1, n - 1, acc * 10 + DigitVal(s[i]))

NaN == [nan |-> TRUE, n |-> 0]
Num(n) == [nan |-> FALSE, n |-> n]

\* parseInt(s): an optional sign, then the longest run of digits; what follows
\* is ignored.  (No leading blanks and no 0x prefix among the parameters.)
parseInt(str) ==
    LET s == Chars(str)
        neg == Len(s) > 0 /\ s[1] = "-"
        from == IF Len(s) > 0 /\ s[1] \in {"-", "+"} THEN 2 ELSE 1
        n == digitRun(s, from)
    IN  IF n = 0 THEN NaN
        ELSE Num((IF neg THEN -1 ELSE 1) * digitsValue(s, from, n, 0))

\* Number(s), as == converts a string compared with a number: the empty
\* string is 0, a signed run of digits its value, anything else NaN.
toNumber(str) ==
    LET s == Chars(str)
        neg == Len(s) > 0 /\ s[1] = "-"
        from == IF Len(s) > 0 /\ s[1] \in {"-", "+"} THEN 2 ELSE 1
        n == digitRun(s, from)
    IN  IF s = <<>> THEN Num(0)
        ELSE IF n = 0 \/ from + n - 1 # Len(s) THEN NaN
        ELSE Num((IF neg THEN -1 ELSE 1) * digitsValue(s, from, n, 0))

-----------------------------------------------------------------------------
(* Stored ids.  A record made before ids existed has none; an old record   *)
(* may hold a number.                                                      *)

NoId == [kind |-> "undefined", s |-> "", n |-> 0]
StrId(s) == [kind |-> "string", s |-> s, n |-> 0]
NumId(n) == [kind |-> "number", s |-> "", n |-> n]

\* id == param, param a string (req.params.id).
LooseEq(id, param) ==
    CASE id.kind = "string" -> id.s = param
      [] id.kind = "number" -> toNumber(param) = Num(id.n)
      [] OTHER -> FALSE

\* id === param.
StrictEq(id, param) == id.kind = "string" /\ id.s = param

\* Array.prototype.findIndex (0-based, -1 when no element satisfies P).
FindIndex(seq, P(_)) ==
    IF \E i \in 1..Len(seq) : P(seq[i])
    THEN (CHOOSE i \in 1..Len(seq) : P(seq[i]) /\ \A j \in 1..(i-1) : ~P(seq[j])) - 1
    ELSE -1

\* Array.prototype.splice(i, 1), i >= 0: past the end it removes nothing.
Splice1(seq, i) ==
    IF i < Len(seq)
    THEN [k \in 1..(Len(seq) - 1) |-> IF k <= i THEN seq[k] ELSE seq[k + 1]]
    ELSE seq

-----------------------------------------------------------------------------
(* extractPublicId and the asset store.                                    *)

NoPublicId == [null |-> TRUE, s |-> <<>>]
PublicId(s) == [null |-> FALSE, s |-> s]

\* The regular expression /\/upload\/(?:v\d+\/)?(.*)/: where its leftmost
\* match starts (0 when there is none) and what group 1 captures.
uploadAt(s) ==
    IF \E i \in 1..(Len(s) - 2) : s[i] = "/" /\ s[i+1] = "upload" /\ s[i+2] = "/"
    THEN CHOOSE i \in 1..(Len(s) - 2) :
            /\ s[i] = "/" /\ s[i+1] = "upload" /\ s[i+2] = "/"
            /\ \A j \in 1..(i-1) : ~(s[j] = "/" /\ s[j+1] = "upload" /\ s[j+2] = "/")
    ELSE 0

\* The regular expression without (?:v\d+\/)?: group 1 is all that follows
\* the marker.
group1VersionKept(s) == SubSeq(s, uploadAt(s) + 3, Len(s))

group1(s) ==
    LET a == uploadAt(s) + 3
        d == IF a <= Len(s) /\ s[a] = "v" THEN digitRun(s, a + 1) ELSE 0
        versioned == d > 0 /\ a + d + 1 <= Len(s) /\ s[a + d + 1] = "/"
    IN  SubSeq(s, IF versioned THEN a + d + 2 ELSE a, Len(s))

\* extractPublicId, fileUrl given by its characters.
extractPublicIdChars(s) ==
    IF s = <<>> \/ ~Includes(s, "cloudinary.com") THEN NoPublicId
    ELSE IF uploadAt(s) # 0 /\ group1(s) # <<>>
         THEN PublicId(Substring0(group1(s), LastIndexOf(group1(s), ".")))
         ELSE NoPublicId

extractPublicId(fileUrl) == extractPublicIdChars(UrlChars(fileUrl))

\* deleteCloudinaryAsset's guard: !publicId (null or the empty string).
Falsy(publicId) == publicId.null \/ publicId.s = <<>>

\* The asset Cloudinary keeps for a URL it handed out.
IsStoreUrl(u) == Includes(UrlChars(u), "cloudinary.com")
AssetOf(u) == <<u>>

-----------------------------------------------------------------------------
(* The document.                                                           *)

Texts == {"t1"}

Slide(url, t) ==
    [url |-> url, title |-> t, description |-> t, link |-> t, buttonText |-> t]

NoFooter ==
    [present |-> FALSE, name |-> "", line1 |-> "", line2 |-> "", githubLink |-> "",
     emailLink |-> "", phoneLink |-> "", linkedinLink |-> ""]

\* data/initialPortfolioData.json, and the document an earlier run left.
SeedDoc ==
    [carousel |-> <<Slide("Ucar0", "t0"), Slide("Lcar1", "t0")>>,
     about |-> [summary |-> "t0", fullStory |-> "t0", skills |-> <<"js">>,
                photoUrl |-> "Upho"],
     projectSummary |-> [title |-> "t0", paragraph1 |-> "t0", paragraph2 |-> "t0",
                         buttonLink |-> "t0", image |-> "Usum"],
     education |-> <<[id |-> NoId, title |-> "t0", institution |-> "t0",
                      years |-> "t0", imageUrl |-> "Ue0"],
                     [id |-> StrId("0"), title |-> "t0", institution |-> "t0",
                      years |-> "t0", imageUrl |-> "Ue1"],
                     [id |-> StrId("e2"), title |-> "t0", institution |-> "t0",
                      years |-> "t0", imageUrl |-> "Ue2"]>>,
     certificates |-> <<[id |-> StrId("c1"), title |-> "t0", issuer |-> "t0",
                         pdfUrl |-> "Uc1"],
                        [id |-> NumId(2), title |-> "t0", issuer |-> "t0",
                         pdfUrl |-> NoUrl]>>,
     gallery |-> <<[id |-> StrId("g1"), url |-> "Ug1", caption |-> "t0"],
                   [id |-> NumId(2), url |-> "Lg2", caption |-> "t0"]>>,
     projects |-> <<[id |-> StrId("p1"), title |-> "t0", description |-> "t0",
                     githubLink |-> "t0", images |-> <<"Ui1", "Ui2">>]>>,
     footerInfo |-> NoFooter]

Paths == {"carousel", "about", "projectSummary", "education", "certificates",
          "gallery", "projects", "footerInfo"}

\* Every URL a document holds.
RECURSIVE imagesOf(_)
imagesOf(projects) ==
    IF projects = <<>> THEN {}
    ELSE {projects[1].images[i] : i \in 1..Len(projects[1].images)}
            \cup imagesOf(Tail(projects))

\* The number of records and project images of a document.
RECURSIVE imageCount(_)
imageCount(projects) ==
    IF projects = <<>> THEN 0
    ELSE Len(projects[1].images) + imageCount(Tail(projects))

Size(d) ==
    Len(d.carousel) + Len(d.education) + Len(d.certificates) + Len(d.gallery)
        + Len(d.projects) + imageCount(d.projects)

DocUrls(d) ==
         ({d.carousel[i].url : i \in 1..Len(d.carousel)}
          \cup {d.about.photoUrl, d.projectSummary.image}
          \cup {d.education[i].imageUrl : i \in 1..Len(d.education)}
          \cup {d.certificates[i].pdfUrl : i \in 1..Len(d.certificates)}
          \cup {d.gallery[i].url : i \in 1..Len(d.gallery)}
          \cup imagesOf(d.projects)) \ {NoUrl}


-----------------------------------------------------------------------------
(* The state.                                                              *)

VARIABLES
    proc,       \* the process: connecting, loading, seeding, listening, exited
    loggedIn,   \* app.locals.isLoggedIn === true
    held,       \* portfolioData: a document object, or NoObj (null)
    heap,       \* the live document objects: their content and modified paths
    store,      \* the Portfolio collection: <<>> or <<the document>>
    assets,     \* the public ids of the assets Cloudinary holds
    req,        \* the requests being handled, and the last answer of each slot
    nreq,       \* requests accepted so far
    nup,        \* files uploaded so far
    issued,     \* the uuids generated so far
    hist        \* what happened so far (history, read by no handler)

vars == <<proc, loggedIn, held, heap, store, assets, req, nreq, nup, issued,
          hist>>

\* uuidv4(): some string not generated before; it may start with a digit.
Uuids == {"0u", "ua"}

\* 'proj' + uuidv4()
ProjId(u) == IF u = "0u" THEN "proj0u" ELSE "projua"

\* An entry of a request's trace: a call (destroy with the public id it is
\* given, save, find) and its result, or a change of a document object with the
\* URLs it dropped from the held document, those it added and the number of
\* records it cut out.
Ev(op, arg, res) ==
    [op |-> op, arg |-> arg, res |-> res, drop |-> {}, add |-> {}, cut |-> 0]

NoDelta == [paths |-> {}, doc |-> <<>>, err |-> FALSE]

Idle ==
    [route |-> "", pc |-> "idle", id |-> "", t |-> "", hasFile |-> FALSE,
     file |-> NoUrl, imageUrl |-> NoUrl,
     uuid |-> "", idx |-> -1, obj |-> NoObj, ref |-> -1, det |-> <<>>, i |-> 0,
     delta |-> NoDelta, resp |-> "", body |-> <<>>, trace |-> <<>>, solo |-> TRUE]

InFlight(s) == req[s].pc \notin {"idle", "done"}

\* The state as one record, so that a handler's synchronous stretch is a
\* function from state to state.
Cur ==
    [proc |-> proc, loggedIn |-> loggedIn, held |-> held, heap |-> heap,
     store |-> store, assets |-> assets, req |-> req, nup |-> nup,
     issued |-> issued, hist |-> hist]

\* Objects neither held nor referenced by a handler are garbage.
Gc(h, hd, rq) ==
    [o \in {x \in DOMAIN h : x = hd \/ \E s \in Slots : rq[s].obj = x} |-> h[o]]

Becomes(n) ==
    /\ proc' = n.proc
    /\ loggedIn' = n.loggedIn
    /\ held' = n.held
    /\ heap' = Gc(n.heap, n.held, n.req)
    /\ store' = n.store
    /\ assets' = n.assets
    /\ req' = n.req
    /\ nup' = n.nup
    /\ issued' = n.issued
    /\ hist' = n.hist

\* The document the held reference points to.
Doc(c) == c.heap[c.held].doc

\* A request's answer: its locals die with it.
Answer(s, resp) ==
    [Idle EXCEPT !.route = s.route, !.pc = "done", !.id = s.id, !.t = s.t,
                 !.hasFile = s.hasFile, !.file = s.file, !.imageUrl = s.imageUrl,
                 !.resp = resp, !.body = s.body, !.trace = s.trace,
                 !.solo = s.solo]

Respond(c, r, resp) == [c EXCEPT !.req[r] = Answer(c.req[r], resp)]

Log(c, r, e) == [c EXCEPT !.req[r].trace = Append(@, e)]

\* A handler that leaves markModified out: the save carries no path.
markModifiedLeftOut(c, path) == c

\* portfolioData.markModified(path)
markModified(c, path) == [c EXCEPT !.heap[c.held].dirty = @ \cup {path}]

\* await portfolioData.save(): the modified paths leave as one update, and the
\* handler waits for the store's answer.  A document object that is being
\* saved refuses a second save (Mongoose's ParallelSaveError).
CallSave(c, r) ==
    LET o == c.held
        saving == \E s \in Slots : /\ s # r /\ c.req[s].pc = "save"
                                    /\ c.req[s].obj = o /\ ~c.req[s].delta.err
    IN  [c EXCEPT !.req[r].pc = "save",
                  !.req[r].obj = o,
                  !.req[r].ref = -1,
                  !.req[r].delta = IF saving THEN [NoDelta EXCEPT !.err = TRUE]
                                   ELSE [paths |-> c.heap[o].dirty,
                                         doc |-> <<c.heap[o].doc>>, err |-> FALSE],
                  !.req[r].trace = Append(@, Ev("save", <<>>, "")),
                  !.hist.saveFailed = @ \/ saving]

\* await Portfolio.findById('portfolio_data')
CallFind(c, r) ==
    [c EXCEPT !.req[r].pc = "find",
              !.req[r].obj = NoObj,
              !.req[r].delta = NoDelta,
              !.req[r].trace = Append(@, Ev("find", <<>>, ""))]

\* await deleteCloudinaryAsset(publicId), publicId truthy: the handler waits
\* for cloudinary.uploader.destroy.
CallDestroy(c, r, publicId) ==
    [c EXCEPT !.req[r].pc = "destroy",
              !.req[r].trace = Append(@, Ev("destroy", publicId.s, "")),
              !.hist.called = @ \cup {publicId.s}]

\* The update a save carries, applied to the stored document.
ApplyDelta(st, delta) ==
    IF delta.paths = {} \/ st = <<>> THEN st
    ELSE << [p \in Paths |-> IF p \in delta.paths THEN delta.doc[1][p] ELSE st[1][p]] >>

\* A document object hydrated from the stored document.
Hydrate(d) == [doc |-> d, dirty |-> {}]

\* A findById that resolves to null.
NewObjAbsent(c) == NoObj

\* The object a new document takes: the first one nobody references.
NewObj(c) ==
    CHOOSE o \in ObjIds :
        /\ \A s \in Slots : c.req[s].obj # o
        /\ \A p \in ObjIds : (p < o) => \E s \in Slots : c.req[s].obj = p

SetObj(h, o, v) == [x \in DOMAIN h \cup {o} |-> IF x = o THEN v ELSE h[x]]

-----------------------------------------------------------------------------
(* Start-up: connectDBAndLoadData().then(() => app.listen(...)).           *)

Init ==
    /\ proc = "connecting"
    /\ loggedIn = FALSE
    /\ held = NoObj
    /\ heap = << >>
    /\ store \in {<<>>, <<SeedDoc>>}
    /\ assets = {AssetOf(u) : u \in SeedStoreUrls}
    /\ req = [s \in Slots |-> Idle]
    /\ nreq = 0
    /\ nup = 0
    /\ issued = {}
    /\ hist = [overlap |-> FALSE, saveFailed |-> FALSE, called |-> {}]

\* await mongoose.connect(MONGO_URI)
Connect ==
    /\ proc = "connecting"
    /\ \E ok \in BOOLEAN : proc' = IF ok THEN "loading" ELSE "exited"
    /\ UNCHANGED <<loggedIn, held, heap, store, assets, req, nreq, nup, issued,
                   hist>>

\* let data = await Portfolio.findById('portfolio_data')
LoadData ==
    /\ proc = "loading"
    /\ \E ok \in BOOLEAN :
        IF ~ok THEN proc' = "exited" /\ UNCHANGED <<held, heap>>
        ELSE IF store = <<>>
             THEN proc' = "seeding" /\ UNCHANGED <<held, heap>>
             ELSE /\ proc' = "listening"
                  /\ held' = 1
                  /\ heap' = SetObj(heap, 1, Hydrate(store[1]))
    /\ UNCHANGED <<loggedIn, store, assets, req, nreq, nup, issued, hist>>

\* A start-up that holds the seed document without having saved it.
SeedDataUnsaved ==
    /\ proc = "seeding"
    /\ \E ok \in BOOLEAN :
        IF ~ok THEN proc' = "exited" /\ UNCHANGED <<held, heap>>
        ELSE /\ proc' = "listening"
             /\ held' = 1
             /\ heap' = SetObj(heap, 1, Hydrate(SeedDoc))
    /\ UNCHANGED <<loggedIn, store, assets, req, nreq, nup, issued, hist>>

\* data = new Portfolio({_id, ...initialData}); await data.save()
SeedData ==
    /\ proc = "seeding"
    /\ \E ok \in BOOLEAN :
        IF ~ok THEN proc' = "exited" /\ UNCHANGED <<held, heap, store>>
        ELSE /\ store' = <<SeedDoc>>
             /\ proc' = "listening"
             /\ held' = 1
             /\ heap' = SetObj(heap, 1, Hydrate(SeedDoc))
    /\ UNCHANGED <<loggedIn, assets, req, nreq, nup, issued, hist>>

-----------------------------------------------------------------------------
(* The arrival of a request and the two gates.                             *)

\* A request is accepted into the first slot that handles none.
Accepts(r) ==
    /\ proc = "listening"
    /\ nreq < MaxReq
    /\ ~InFlight(r)
    /\ \A s \in Slots : s < r => InFlight(s)
    /\ nreq' = nreq + 1

\* The state when request r has arrived: the requests it overlaps are no
\* longer alone, and the answers given before are history.
Arrived(r, route, id, t, hasFile, imageUrl) ==
    LET busy == \E s \in Slots : InFlight(s)
    IN  [Cur EXCEPT
            !.req = [s \in Slots |->
                        IF s = r
                        THEN [Idle EXCEPT !.route = route, !.pc = "gate", !.id = id,
                                          !.t = t, !.hasFile = hasFile,
                                          !.imageUrl = imageUrl, !.solo = ~busy]
                        ELSE IF InFlight(s) THEN [req[s] EXCEPT !.solo = FALSE]
                        ELSE Idle],
            !.hist.overlap = @ \/ busy]

\* The gates with isAuthenticated left off the admin routes.
GateOpen(c, admin) == IF c.held = NoObj THEN "503" ELSE ""

\* ensureDataLoaded (app.use), then isAuthenticated on the admin routes: ""
\* when the request passes both.
Gate(c, admin) ==
    IF c.held = NoObj THEN "503"
    ELSE IF admin /\ ~c.loggedIn THEN "redirect:/login"
    ELSE ""

-----------------------------------------------------------------------------
(* Public routes, login, logout, GET /admin.                               *)

Views == [index |-> "/", projects |-> "/projects",
          certificates |-> "/certificates", about |-> "/about"]

\* A render of what the store holds.
RenderPersisted(c, r, view) ==
    [Respond(c, r, view) EXCEPT !.req[r].body = c.store]

\* res.render(view, { portfolioData: portfolioData.toObject() })
Render(c, r, view) ==
    [Respond(c, r, view) EXCEPT !.req[r].body = <<Doc(c)>>]

GetPublic(r) ==
    \E view \in DOMAIN Views :
        /\ Accepts(r)
        /\ LET c == Arrived(r, view, "", "", FALSE, NoUrl)
           IN  Becomes(IF Gate(c, FALSE) # "" THEN Respond(c, r, Gate(c, FALSE))
                       ELSE Render(c, r, view))

GetLogin(r) ==
    /\ Accepts(r)
    /\ LET c == Arrived(r, "GET /login", "", "", FALSE, NoUrl)
       IN  Becomes(IF Gate(c, FALSE) # "" THEN Respond(c, r, Gate(c, FALSE))
                   ELSE Respond(c, r, "login"))

GetAdmin(r) ==
    /\ Accepts(r)
    /\ LET c == Arrived(r, "GET /admin", "", "", FALSE, NoUrl)
       IN  Becomes(IF Gate(c, TRUE) # "" THEN Respond(c, r, Gate(c, TRUE))
                   ELSE Render(c, r, "admin"))

\* The credentials a client can send: the configured ones are "admin"/"pw".
ADMIN_USERNAME == "admin"
ADMIN_PASSWORD == "pw"
Usernames == {"admin", "guest"}
Passwords == {"pw", "123"}

\* A login that is content with one of the two credentials.
PostLoginEither(r) ==
    \E username \in Usernames, password \in Passwords :
        /\ Accepts(r)
        /\ LET c == Arrived(r, "POST /login", username, password, FALSE, NoUrl)
           IN  Becomes(
                 IF Gate(c, FALSE) # "" THEN Respond(c, r, Gate(c, FALSE))
                 ELSE IF username = ADMIN_USERNAME \/ password = ADMIN_PASSWORD
                      THEN [Respond(c, r, "redirect:/admin") EXCEPT !.loggedIn = TRUE]
                      ELSE Respond(c, r, "login:Invalid username or password."))

PostLogin(r) ==
    \E username \in Usernames, password \in Passwords :
        /\ Accepts(r)
        /\ LET c == Arrived(r, "POST /login", username, password, FALSE, NoUrl)
           IN  Becomes(
                 IF Gate(c, FALSE) # "" THEN Respond(c, r, Gate(c, FALSE))
                 ELSE IF username = ADMIN_USERNAME /\ password = ADMIN_PASSWORD
                      THEN [Respond(c, r, "redirect:/admin") EXCEPT !.loggedIn = TRUE]
                      ELSE Respond(c, r, "login:Invalid username or password."))

\* A logout registered behind isAuthenticated.
PostLogoutAuthenticated(r) ==
    /\ Accepts(r)
    /\ LET c == Arrived(r, "POST /logout", "", "", FALSE, NoUrl)
       IN  Becomes(IF Gate(c, TRUE) # "" THEN Respond(c, r, Gate(c, TRUE))
                   ELSE [Respond(c, r, "redirect:/") EXCEPT !.loggedIn = FALSE])

PostLogout(r) ==
    /\ Accepts(r)
    /\ LET c == Arrived(r, "POST /logout", "", "", FALSE, NoUrl)
       IN  Becomes(IF Gate(c, FALSE) # "" THEN Respond(c, r, Gate(c, FALSE))
                   ELSE [Respond(c, r, "redirect:/") EXCEPT !.loggedIn = FALSE])

-----------------------------------------------------------------------------
(* What the admin handlers share.                                          *)

\* The held document changed in place.
Change(c, r, d) ==
    Log([c EXCEPT !.heap[c.held].doc = d], r,
        [Ev("change", <<>>, "") EXCEPT !.drop = DocUrls(Doc(c)) \ DocUrls(d),
                                       !.add = DocUrls(d) \ DocUrls(Doc(c)),
                                       !.cut = Size(Doc(c)) - Size(d)])

\* A record changed that the held document no longer contains.
Stale(c, r) == Log(c, r, Ev("change", <<>>, "stale"))

\* A route that generates an id draws it when it arrives.
DrawsUuid(route, hasFile) ==
    \/ route = "add-project"
    \/ hasFile /\ route \in {"upload-certificate", "upload-gallery", "add-education"}

Draw(c, r, u) ==
    IF u = "" THEN c ELSE [c EXCEPT !.issued = @ \cup {u}, !.req[r].uuid = u]

UuidFor(route, hasFile) ==
    IF DrawsUuid(route, hasFile) THEN Uuids \ issued ELSE {""}

\* multer's single(field): the request body is read and its file, if any,
\* goes to Cloudinary before the route's callback runs.
CallUpload(c, r) == [c EXCEPT !.req[r].pc = "upload"]

\* An admin request arrives: the gates, then multer (upload routes) or the
\* handler itself.
Enter(r, route, id, t, hasFile, imageUrl, u, Handler(_, _)) ==
    LET c == Draw(Arrived(r, route, id, t, hasFile, imageUrl), r, u)
    IN  Becomes(IF Gate(c, TRUE) # "" THEN Respond(c, r, Gate(c, TRUE))
                ELSE Handler(c, r))

-----------------------------------------------------------------------------
(* 1. POST /admin/update-carousel/:index                                   *)

updateCarouselText(c, r) ==
    LET s == c.req[r]
        k == s.idx + 1
    IN  CallSave(markModified(
            Change(c, r, [Doc(c) EXCEPT !.carousel[k].title = s.t,
                                        !.carousel[k].description = s.t,
                                        !.carousel[k].link = s.t,
                                        !.carousel[k].buttonText = s.t]),
            "carousel"), r)

updateCarouselUrl(c, r) ==
    LET s == c.req[r]
    IN  updateCarouselText(
            Change(c, r, [Doc(c) EXCEPT !.carousel[s.idx + 1].url = s.file]), r)

\* A handler that takes a position it cannot use for the first slide.
updateCarouselOrFirst(c, r) ==
    LET s == c.req[r]
        parsed == parseInt(s.id)
        index == IF ~parsed.nan /\ parsed.n >= 0 /\ parsed.n < Len(Doc(c).carousel)
                 THEN parsed ELSE Num(0)
    IN  IF index.n < Len(Doc(c).carousel)
        THEN LET c1 == [c EXCEPT !.req[r].idx = index.n]
                 publicId == extractPublicId(Doc(c).carousel[index.n + 1].url)
             IN  IF s.file # NoUrl
                 THEN IF Falsy(publicId) THEN updateCarouselUrl(c1, r)
                      ELSE CallDestroy(c1, r, publicId)
                 ELSE updateCarouselText(c1, r)
        ELSE Respond(c, r, "redirect:/admin#carousel")

updateCarousel(c, r) ==
    LET s == c.req[r]
        index == parseInt(s.id)
    IN  IF ~index.nan /\ index.n >= 0 /\ index.n < Len(Doc(c).carousel)
        THEN LET c1 == [c EXCEPT !.req[r].idx = index.n]
                 publicId == extractPublicId(Doc(c).carousel[index.n + 1].url)
             IN  IF s.file # NoUrl
                 THEN IF Falsy(publicId) THEN updateCarouselUrl(c1, r)
                      ELSE CallDestroy(c1, r, publicId)
                 ELSE updateCarouselText(c1, r)
        ELSE Respond(c, r, "redirect:/admin#carousel")

CarouselParams == {"0", "1", "5", "-1", "ua"}

UpdateCarousel(r) ==
    \E index \in CarouselParams, t \in Texts, hasFile \in BOOLEAN :
        /\ Accepts(r)
        /\ Enter(r, "update-carousel", index, t, hasFile, NoUrl, "", CallUpload)

(* 4. POST /admin/upload-photo                                             *)

uploadPhotoUrl(c, r) ==
    CallSave(markModified(
        Change(c, r, [Doc(c) EXCEPT !.about.photoUrl = c.req[r].file]),
        "about"), r)

\* A handler that installs the new photo and leaves the old asset alone.
uploadPhotoKeepsAsset(c, r) ==
    IF c.req[r].file # NoUrl THEN uploadPhotoUrl(c, r)
    ELSE Respond(c, r, "redirect:/admin#general")

uploadPhoto(c, r) ==
    LET publicId == extractPublicId(Doc(c).about.photoUrl)
    IN  IF c.req[r].file # NoUrl
        THEN IF Falsy(publicId) THEN uploadPhotoUrl(c, r)
             ELSE CallDestroy(c, r, publicId)
        ELSE Respond(c, r, "redirect:/admin#general")

UploadPhoto(r) ==
    \E hasFile \in BOOLEAN :
        /\ Accepts(r)
        /\ Enter(r, "upload-photo", "", "", hasFile, NoUrl, "", CallUpload)

(* 3. POST /admin/update-project-summary                                   *)

updateProjectSummaryText(c, r) ==
    LET s == c.req[r]
    IN  CallSave(markModified(
            Change(c, r, [Doc(c) EXCEPT !.projectSummary.title = s.t,
                                        !.projectSummary.paragraph1 = s.t,
                                        !.projectSummary.paragraph2 = s.t,
                                        !.projectSummary.buttonLink = s.t]),
            "projectSummary"), r)

updateProjectSummaryUrl(c, r) ==
    updateProjectSummaryText(
        Change(c, r, [Doc(c) EXCEPT !.projectSummary.image = c.req[r].file]), r)

updateProjectSummary(c, r) ==
    LET publicId == extractPublicId(Doc(c).projectSummary.image)
    IN  IF c.req[r].file # NoUrl
        THEN IF Falsy(publicId) THEN updateProjectSummaryUrl(c, r)
             ELSE CallDestroy(c, r, publicId)
        ELSE updateProjectSummaryText(c, r)

UpdateProjectSummary(r) ==
    \E t \in Texts, hasFile \in BOOLEAN :
        /\ Accepts(r)
        /\ Enter(r, "update-project-summary", "", t, hasFile, NoUrl, "", CallUpload)

(* 7. POST /admin/upload-project-image/:id                                 *)

uploadProjectImage(c, r) ==
    LET s == c.req[r]
        at == FindIndex(Doc(c).projects, LAMBDA p : StrictEq(p.id, s.id))
    IN  IF at # -1 /\ s.file # NoUrl
        THEN CallSave(markModified(
                Change(c, r, [Doc(c) EXCEPT !.projects[at + 1].images =
                                                Append(@, s.file)]),
                "projects"), r)
        ELSE Respond(c, r, "redirect:/admin#projects")

ProjectParams == {"p1", "zz"}

UploadProjectImage(r) ==
    \E id \in ProjectParams, hasFile \in BOOLEAN :
        /\ Accepts(r)
        /\ Enter(r, "upload-project-image", id, "", hasFile, NoUrl, "", CallUpload)

(* 7A. POST /admin/delete-project-image/:id                                *)

\* The images of the project a handler found: in its document object, or on
\* their own once the project was spliced out of it.
FoundImages(c, r) ==
    LET s == c.req[r]
    IN  IF s.ref >= 0 THEN c.heap[s.obj].doc.projects[s.ref + 1].images ELSE s.det

deleteProjectImageSplice(c, r) ==
    LET s == c.req[r]
        images == Splice1(FoundImages(c, r), s.idx)
        c1 == IF s.ref < 0 THEN Stale([c EXCEPT !.req[r].det = images], r)
              ELSE IF s.obj = c.held
                   THEN Change(c, r, [Doc(c) EXCEPT !.projects[s.ref + 1].images = images])
                   ELSE Stale([c EXCEPT !.heap[s.obj].doc.projects[s.ref + 1].images =
                                            images], r)
    IN  CallSave(markModified(c1, "projects"), r)

IndexOf(seq, x) == FindIndex(seq, LAMBDA e : e = x)

\* A handler without the test imageIndex > -1: splice(-1, 1) removes the last
\* image.
deleteProjectImageUnchecked(c, r) ==
    LET s == c.req[r]
        at == FindIndex(Doc(c).projects, LAMBDA p : StrictEq(p.id, s.id))
        images == IF at # -1 THEN Doc(c).projects[at + 1].images ELSE <<>>
        imageIndex == IF IndexOf(images, s.imageUrl) > -1
                      THEN IndexOf(images, s.imageUrl) ELSE Len(images) - 1
        publicId == extractPublicId(s.imageUrl)
        c1 == [c EXCEPT !.req[r].idx = imageIndex, !.req[r].ref = at,
                        !.req[r].obj = c.held]
    IN  IF at # -1 /\ s.imageUrl # NoUrl /\ imageIndex > -1
        THEN IF Falsy(publicId) THEN deleteProjectImageSplice(c1, r)
             ELSE CallDestroy(c1, r, publicId)
        ELSE Respond(c, r, "redirect:/admin#projects")

deleteProjectImage(c, r) ==
    LET s == c.req[r]
        at == FindIndex(Doc(c).projects, LAMBDA p : StrictEq(p.id, s.id))
        imageIndex == IF at # -1 THEN IndexOf(Doc(c).projects[at + 1].images, s.imageUrl)
                      ELSE -1
        publicId == extractPublicId(s.imageUrl)
        c1 == [c EXCEPT !.req[r].idx = imageIndex, !.req[r].ref = at,
                        !.req[r].obj = c.held]
    IN  IF at # -1 /\ s.imageUrl # NoUrl /\ imageIndex > -1
        THEN IF Falsy(publicId) THEN deleteProjectImageSplice(c1, r)
             ELSE CallDestroy(c1, r, publicId)
        ELSE Respond(c, r, "redirect:/admin#projects")

ImageUrlParams == {"Ui1", "Ui2", "Li3", "up1", NoUrl}

DeleteProjectImage(r) ==
    \E id \in ProjectParams, imageUrl \in ImageUrlParams :
        /\ Accepts(r)
        /\ Enter(r, "delete-project-image", id, "", FALSE, imageUrl, "",
                 deleteProjectImage)

(* 7B. POST /admin/delete-project/:id                                      *)

\* Another handler's found record after splice(at, 1) on the array it is in.
Shifted(s, at, images) ==
    IF s.ref = at THEN [s EXCEPT !.ref = -1, !.det = images]
    ELSE IF s.ref > at THEN [s EXCEPT !.ref = @ - 1]
    ELSE s

\* portfolioData.<coll>.splice(at, 1), seen by the handlers that hold a record
\* of that array (routes).
SpliceHeld(c, r, coll, at, routes) ==
    LET d == Doc(c)
        gone == at < Len(d[coll])
        images == IF gone /\ coll = "projects" THEN d[coll][at + 1].images ELSE <<>>
        c1 == Change(c, r, [d EXCEPT ![coll] = Splice1(@, at)])
    IN  [c1 EXCEPT !.req = [s \in Slots |->
            IF s # r /\ gone /\ c1.req[s].obj = c.held /\ c1.req[s].route \in routes
               /\ c1.req[s].pc = "destroy"
            THEN Shifted(c1.req[s], at, images)
            ELSE c1.req[s]]]

\* A handler that splices the head of the projects, whatever it found.
deleteProjectSpliceFirst(c, r) ==
    CallSave(markModified(
        SpliceHeld(c, r, "projects", 0, {"delete-project", "delete-project-image"}),
        "projects"), r)

deleteProjectSplice(c, r) ==
    CallSave(markModified(
        SpliceHeld(c, r, "projects", c.req[r].idx,
                   {"delete-project", "delete-project-image"}),
        "projects"), r)

\* A handler that removes the project and leaves its images' assets alone.
deleteProjectLoopLeftOut(c, r) == deleteProjectSplice(c, r)

RECURSIVE deleteProjectLoop(_, _)
deleteProjectLoop(c, r) ==
    LET s == c.req[r]
        images == FoundImages(c, r)
        publicId == extractPublicId(images[s.i + 1])
        c1 == [c EXCEPT !.req[r].i = s.i + 1]
    IN  IF s.i < Len(images)
        THEN IF Falsy(publicId) THEN deleteProjectLoop(c1, r)
             ELSE CallDestroy(c1, r, publicId)
        ELSE deleteProjectSplice(c, r)

deleteProject(c, r) ==
    LET s == c.req[r]
        projectIndex == FindIndex(Doc(c).projects, LAMBDA p : StrictEq(p.id, s.id))
    IN  IF projectIndex # -1
        THEN deleteProjectLoop([c EXCEPT !.req[r].idx = projectIndex,
                                         !.req[r].ref = projectIndex,
                                         !.req[r].obj = c.held, !.req[r].i = 0], r)
        ELSE Respond(c, r, "redirect:/admin#projects")

DeleteProject(r) ==
    \E id \in ProjectParams :
        /\ Accepts(r)
        /\ Enter(r, "delete-project", id, "", FALSE, NoUrl, "", deleteProject)

(* 8. POST /admin/upload-certificate                                       *)

uploadCertificate(c, r) ==
    LET s == c.req[r]
    IN  IF s.file # NoUrl
        THEN CallSave(markModified(
                Change(c, r, [Doc(c) EXCEPT !.certificates =
                    Append(@, [id |-> StrId(s.uuid), title |-> s.t, issuer |-> s.t,
                               pdfUrl |-> s.file])]),
                "certificates"), r)
        ELSE Respond(c, r, "redirect:/admin#certificates")

UploadCertificate(r) ==
    \E t \in Texts, hasFile \in BOOLEAN :
        \E u \in UuidFor("upload-certificate", hasFile) :
            /\ Accepts(r)
            /\ Enter(r, "upload-certificate", "", t, hasFile, NoUrl, u, CallUpload)

(* 9. POST /admin/upload-gallery                                           *)

uploadGallery(c, r) ==
    LET s == c.req[r]
    IN  IF s.file # NoUrl
        THEN CallSave(markModified(
                Change(c, r, [Doc(c) EXCEPT !.gallery =
                    Append(@, [id |-> StrId(s.uuid), url |-> s.file,
                               caption |-> s.t])]),
                "gallery"), r)
        ELSE Respond(c, r, "redirect:/admin#gallery")

UploadGallery(r) ==
    \E t \in Texts, hasFile \in BOOLEAN :
        \E u \in UuidFor("upload-gallery", hasFile) :
            /\ Accepts(r)
            /\ Enter(r, "upload-gallery", "", t, hasFile, NoUrl, u, CallUpload)

(* 9A. POST /admin/update-gallery-photo/:id                                *)

\* photo.url = req.file.path, photo the record found before the await: it
\* may by now lie in a document object that is no longer held, or in none.
updateGalleryPhotoUrl(c, r) ==
    LET s == c.req[r]
        c1 == IF s.ref < 0 THEN Stale(c, r)
              ELSE IF s.obj = c.held
                   THEN Change(c, r, [Doc(c) EXCEPT !.gallery[s.ref + 1].url = s.file])
                   ELSE Stale([c EXCEPT !.heap[s.obj].doc.gallery[s.ref + 1].url = s.file],
                              r)
    IN  CallSave(markModified(c1, "gallery"), r)

updateGalleryPhoto(c, r) ==
    LET s == c.req[r]
        at == FindIndex(Doc(c).gallery, LAMBDA p : LooseEq(p.id, s.id))
        publicId == extractPublicId(Doc(c).gallery[at + 1].url)
        c1 == [c EXCEPT !.req[r].ref = at, !.req[r].obj = c.held]
    IN  IF at # -1 /\ s.file # NoUrl
        THEN IF Falsy(publicId) THEN updateGalleryPhotoUrl(c1, r)
             ELSE CallDestroy(c1, r, publicId)
        ELSE Respond(c, r, "redirect:/admin#gallery")

GalleryParams == {"g1", "2", "zz"}

UpdateGalleryPhoto(r) ==
    \E id \in GalleryParams \cup issued, hasFile \in BOOLEAN :
        /\ Accepts(r)
        /\ Enter(r, "update-gallery-photo", id, "", hasFile, NoUrl, "", CallUpload)

(* 10. POST /admin/delete-certificate/:id                                  *)

deleteCertificateSplice(c, r) ==
    CallSave(markModified(
        SpliceHeld(c, r, "certificates", c.req[r].idx, {}), "certificates"), r)

deleteCertificate(c, r) ==
    LET s == c.req[r]
        certIndex == FindIndex(Doc(c).certificates, LAMBDA cert : LooseEq(cert.id, s.id))
        publicId == extractPublicId(Doc(c).certificates[certIndex + 1].pdfUrl)
        c1 == [c EXCEPT !.req[r].idx = certIndex]
    IN  IF certIndex # -1
        THEN IF Falsy(publicId) THEN deleteCertificateSplice(c1, r)
             ELSE CallDestroy(c1, r, publicId)
        ELSE Respond(c, r, "redirect:/admin#certificates")

CertificateParams == {"c1", "2", "zz"}

DeleteCertificate(r) ==
    \E id \in CertificateParams \cup issued :
        /\ Accepts(r)
        /\ Enter(r, "delete-certificate", id, "", FALSE, NoUrl, "", deleteCertificate)

(* 11. POST /admin/delete-gallery-photo/:id                                *)

deleteGalleryPhotoSplice(c, r) ==
    CallSave(markModified(
        SpliceHeld(c, r, "gallery", c.req[r].idx, {"update-gallery-photo"}),
        "gallery"), r)

\* A handler that removes the photo's record and leaves its asset alone.
deleteGalleryPhotoKeepsAsset(c, r) ==
    LET s == c.req[r]
        photoIndex == FindIndex(Doc(c).gallery, LAMBDA photo : LooseEq(photo.id, s.id))
    IN  IF photoIndex # -1
        THEN deleteGalleryPhotoSplice([c EXCEPT !.req[r].idx = photoIndex], r)
        ELSE Respond(c, r, "redirect:/admin#gallery")

deleteGalleryPhoto(c, r) ==
    LET s == c.req[r]
        photoIndex == FindIndex(Doc(c).gallery, LAMBDA photo : LooseEq(photo.id, s.id))
        publicId == extractPublicId(Doc(c).gallery[photoIndex + 1].url)
        c1 == [c EXCEPT !.req[r].idx = photoIndex]
    IN  IF photoIndex # -1
        THEN IF Falsy(publicId) THEN deleteGalleryPhotoSplice(c1, r)
             ELSE CallDestroy(c1, r, publicId)
        ELSE Respond(c, r, "redirect:/admin#gallery")

DeleteGalleryPhoto(r) ==
    \E id \in GalleryParams \cup issued :
        /\ Accepts(r)
        /\ Enter(r, "delete-gallery-photo", id, "", FALSE, NoUrl, "",
                 deleteGalleryPhoto)

(* 13. POST /admin/add-education                                           *)

addEducation(c, r) ==
    LET s == c.req[r]
    IN  IF s.file # NoUrl
        THEN CallSave(markModified(
                Change(c, r, [Doc(c) EXCEPT !.education =
                    Append(@, [id |-> StrId(s.uuid), title |-> s.t,
                               institution |-> s.t, years |-> s.t,
                               imageUrl |-> s.file])]),
                "education"), r)
        ELSE Respond(c, r, "redirect:/admin#general")

AddEducation(r) ==
    \E t \in Texts, hasFile \in BOOLEAN :
        \E u \in UuidFor("add-education", hasFile) :
            /\ Accepts(r)
            /\ Enter(r, "add-education", "", t, hasFile, NoUrl, u, CallUpload)

(* 14. POST /admin/delete-education/:id                                    *)

deleteEducationSplice(c, r) ==
    CallSave(markModified(
        SpliceHeld(c, r, "education", c.req[r].idx, {}), "education"), r)

\* A lookup that takes a number for a position before it looks at the ids.
eduIndexOfPositionFirst(education, identifier) ==
    LET byId == FindIndex(education, LAMBDA edu : LooseEq(edu.id, identifier))
        indexAsNumber == parseInt(identifier)
    IN  IF ~indexAsNumber.nan /\ indexAsNumber.n >= 0
           /\ indexAsNumber.n < Len(education)
        THEN indexAsNumber.n
        ELSE byId

\* Lines 597-610: the record's position by id, else the identifier as a
\* position.
eduIndexOf(education, identifier) ==
    LET byId == FindIndex(education, LAMBDA edu : LooseEq(edu.id, identifier))
        indexAsNumber == parseInt(identifier)
    IN  IF byId # -1 THEN byId
        ELSE IF ~indexAsNumber.nan /\ indexAsNumber.n >= 0
                /\ indexAsNumber.n < Len(education)
             THEN indexAsNumber.n
             ELSE -1

deleteEducation(c, r) ==
    LET s == c.req[r]
        eduIndex == eduIndexOf(Doc(c).education, s.id)
        publicId == extractPublicId(Doc(c).education[eduIndex + 1].imageUrl)
        c1 == [c EXCEPT !.req[r].idx = eduIndex]
    IN  IF eduIndex # -1
        THEN IF Falsy(publicId) THEN deleteEducationSplice(c1, r)
             ELSE CallDestroy(c1, r, publicId)
        ELSE Respond(c, r, "redirect:/admin#general")

EducationParams == {"0", "1", "e2", "0u", "zz"}

DeleteEducation(r) ==
    \E id \in EducationParams \cup issued :
        /\ Accepts(r)
        /\ Enter(r, "delete-education", id, "", FALSE, NoUrl, "", deleteEducation)

(* 2. POST /admin/update-text                                              *)

\* String.prototype.trim on a line of the aboutSkills field.
Trim(line) == CASE line = " go " -> "go" [] line = "  " -> "" [] OTHER -> line

\* aboutSkills.split('\n').map(s => s.trim()).filter(s => s.length > 0),
\* aboutSkills given by its lines.
SkillsOf(lines) == SelectSeq([i \in 1..Len(lines) |-> Trim(lines[i])], LAMBDA l : l # "")

SkillInputs == {<<"go">>, <<" go ", "  ", "">>}

updateText(c, r) ==
    LET s == c.req[r]
    IN  CallSave(markModified(
            Change(c, r, [Doc(c) EXCEPT !.about.summary = s.t,
                                        !.about.fullStory = s.t,
                                        !.about.skills = SkillsOf(s.det)]),
            "about"), r)

UpdateText(r) ==
    \E t \in Texts, aboutSkills \in SkillInputs :
        /\ Accepts(r)
        /\ LET c == Arrived(r, "update-text", "", t, FALSE, NoUrl)
           IN  Becomes(IF Gate(c, TRUE) # "" THEN Respond(c, r, Gate(c, TRUE))
                       ELSE updateText([c EXCEPT !.req[r].det = aboutSkills], r))

(* 5. POST /admin/add-project                                              *)

addProject(c, r) ==
    LET s == c.req[r]
    IN  CallSave(markModified(
            Change(c, r, [Doc(c) EXCEPT !.projects =
                Append(@, [id |-> StrId(ProjId(s.uuid)), title |-> s.t,
                           description |-> s.t, githubLink |-> s.t,
                           images |-> <<>>])]),
            "projects"), r)

AddProject(r) ==
    \E t \in Texts, u \in UuidFor("add-project", FALSE) :
        /\ Accepts(r)
        /\ Enter(r, "add-project", "", t, FALSE, NoUrl, u, addProject)

(* 6. POST /admin/update-project/:id                                       *)

\* A handler that falls back to the first project when none has the id.
updateProjectOrFirst(c, r) ==
    LET s == c.req[r]
        found == FindIndex(Doc(c).projects, LAMBDA p : StrictEq(p.id, s.id))
        at == IF found # -1 \/ Doc(c).projects = <<>> THEN found ELSE 0
    IN  IF at # -1
        THEN CallSave(markModified(
                Change(c, r, [Doc(c) EXCEPT !.projects[at + 1].title = s.t,
                                            !.projects[at + 1].description = s.t,
                                            !.projects[at + 1].githubLink = s.t]),
                "projects"), r)
        ELSE Respond(c, r, "redirect:/admin#projects")

updateProject(c, r) ==
    LET s == c.req[r]
        at == FindIndex(Doc(c).projects, LAMBDA p : StrictEq(p.id, s.id))
    IN  IF at # -1
        THEN CallSave(markModified(
                Change(c, r, [Doc(c) EXCEPT !.projects[at + 1].title = s.t,
                                            !.projects[at + 1].description = s.t,
                                            !.projects[at + 1].githubLink = s.t]),
                "projects"), r)
        ELSE Respond(c, r, "redirect:/admin#projects")

UpdateProject(r) ==
    \E id \in ProjectParams, t \in Texts :
        /\ Accepts(r)
        /\ Enter(r, "update-project", id, t, FALSE, NoUrl, "", updateProject)

(* 12. POST /admin/update-gallery-caption/:id                              *)

\* A handler that writes the caption into every photo.
updateGalleryCaptionOfAll(c, r) ==
    LET s == c.req[r]
        at == FindIndex(Doc(c).gallery, LAMBDA p : LooseEq(p.id, s.id))
    IN  IF at # -1
        THEN CallSave(markModified(
                Change(c, r, [Doc(c) EXCEPT !.gallery =
                    [k \in DOMAIN @ |-> [@[k] EXCEPT !.caption = s.t]]]),
                "gallery"), r)
        ELSE Respond(c, r, "redirect:/admin#gallery")

updateGalleryCaption(c, r) ==
    LET s == c.req[r]
        at == FindIndex(Doc(c).gallery, LAMBDA p : LooseEq(p.id, s.id))
    IN  IF at # -1
        THEN CallSave(markModified(
                Change(c, r, [Doc(c) EXCEPT !.gallery[at + 1].caption = s.t]),
                "gallery"), r)
        ELSE Respond(c, r, "redirect:/admin#gallery")

UpdateGalleryCaption(r) ==
    \E id \in GalleryParams \cup issued, t \in Texts :
        /\ Accepts(r)
        /\ Enter(r, "update-gallery-caption", id, t, FALSE, NoUrl, "",
                 updateGalleryCaption)

(* 15. POST /admin/update-footer                                           *)

updateFooter(c, r) ==
    LET s == c.req[r]
        \* portfolioData.footerInfo = {} goes through the document's setter,
        \* which marks the path
        c1 == IF Doc(c).footerInfo.present THEN c ELSE markModified(c, "footerInfo")
    IN  CallSave(markModified(
            Change(c1, r, [Doc(c) EXCEPT !.footerInfo =
                [present |-> TRUE, name |-> s.t, line1 |-> s.t, line2 |-> s.t,
                 githubLink |-> s.t, emailLink |-> s.t, phoneLink |-> s.t,
                 linkedinLink |-> s.t]]),
            "footerInfo"), r)

UpdateFooter(r) ==
    \E t \in Texts :
        /\ Accepts(r)
        /\ Enter(r, "update-footer", "", t, FALSE, NoUrl, "", updateFooter)

-----------------------------------------------------------------------------
(* The handlers resume.                                                    *)

\* The route's callback, run when multer is done.
Callback(c, r) ==
    LET route == c.req[r].route
    IN  CASE route = "update-carousel" -> updateCarousel(c, r)
          [] route = "upload-photo" -> uploadPhoto(c, r)
          [] route = "update-project-summary" -> updateProjectSummary(c, r)
          [] route = "upload-project-image" -> uploadProjectImage(c, r)
          [] route = "upload-certificate" -> uploadCertificate(c, r)
          [] route = "upload-gallery" -> uploadGallery(c, r)
          [] route = "update-gallery-photo" -> updateGalleryPhoto(c, r)
          [] route = "add-education" -> addEducation(c, r)

\* Callbacks whose if (err) lacks its return: the redirect is sent and the
\* handler runs on.
UploadDoneFallsThrough(r) ==
    /\ proc = "listening"
    /\ req[r].pc = "upload"
    /\ \E err \in (IF req[r].hasFile THEN BOOLEAN ELSE {FALSE}) :
        IF err THEN Becomes(Respond(Callback(Cur, r), r, "redirect:/admin?uploadError"))
        ELSE LET path == UploadUrls[nup + 1]
                 c == IF req[r].hasFile
                      THEN [Cur EXCEPT !.nup = @ + 1,
                                       !.assets = @ \cup {AssetOf(path)},
                                       !.req[r].file = path]
                      ELSE Cur
             IN  Becomes(Callback(c, r))
    /\ UNCHANGED nreq

\* multer answers: an error, or req.file (when the request carried a file,
\* now an asset of the store) and the parsed body.
UploadDone(r) ==
    /\ proc = "listening"
    /\ req[r].pc = "upload"
    /\ \E err \in (IF req[r].hasFile THEN BOOLEAN ELSE {FALSE}) :
        IF err THEN Becomes(Respond(Cur, r, "redirect:/admin?uploadError"))
        ELSE LET path == UploadUrls[nup + 1]
                 c == IF req[r].hasFile
                      THEN [Cur EXCEPT !.nup = @ + 1,
                                       !.assets = @ \cup {AssetOf(path)},
                                       !.req[r].file = path]
                      ELSE Cur
             IN  Becomes(Callback(c, r))
    /\ UNCHANGED nreq

\* What follows await deleteCloudinaryAsset(publicId) in each route.
Proceed(c, r) ==
    LET route == c.req[r].route
    IN  CASE route = "update-carousel" -> updateCarouselUrl(c, r)
          [] route = "upload-photo" -> uploadPhotoUrl(c, r)
          [] route = "update-project-summary" -> updateProjectSummaryUrl(c, r)
          [] route = "delete-project-image" -> deleteProjectImageSplice(c, r)
          [] route = "delete-project" -> deleteProjectLoop(c, r)
          [] route = "update-gallery-photo" -> updateGalleryPhotoUrl(c, r)
          [] route = "delete-certificate" -> deleteCertificateSplice(c, r)
          [] route = "delete-gallery-photo" -> deleteGalleryPhotoSplice(c, r)
          [] route = "delete-education" -> deleteEducationSplice(c, r)

\* A deleteCloudinaryAsset without its try/catch: what destroy throws reaches
\* the handler.
AfterDestroyRethrown(c, r) ==
    IF c.req[r].trace[Len(c.req[r].trace)].res = "throw"
    THEN Respond(c, r, "500")
    ELSE Proceed(c, r)

\* deleteCloudinaryAsset returns whatever destroy answered or threw: the
\* handler goes on.
AfterDestroy(c, r) == Proceed(c, r)

\* cloudinary.uploader.destroy answers { result: 'ok' } (the asset is gone),
\* { result: 'not found' }, another result, or throws; deleteCloudinaryAsset
\* logs and returns in every case.
DestroyResults(publicId) ==
    (IF publicId \in assets THEN {"ok"} ELSE {"not found"}) \cup {"error", "throw"}

SetLast(c, r, res) == [c EXCEPT !.req[r].trace[Len(c.req[r].trace)].res = res]

DestroyDone(r) ==
    /\ proc = "listening"
    /\ req[r].pc = "destroy"
    /\ LET publicId == req[r].trace[Len(req[r].trace)].arg
       IN  \E res \in DestroyResults(publicId) :
              Becomes(AfterDestroy(
                  SetLast([Cur EXCEPT !.assets = IF res = "ok" THEN @ \ {publicId} ELSE @],
                          r, res), r))
    /\ UNCHANGED nreq

\* The routes that reload the document after the save.
Reloads == {"delete-project-image", "delete-project", "upload-certificate",
            "upload-gallery", "update-gallery-photo", "delete-certificate",
            "delete-gallery-photo", "add-education", "delete-education"}

\* res.redirect of each route's last line.
Redirect(route) ==
    CASE route = "update-carousel" -> "redirect:/admin#carousel"
      [] route \in {"upload-photo", "update-project-summary", "add-education",
                    "delete-education", "update-text", "update-footer"}
            -> "redirect:/admin#general"
      [] route \in {"upload-project-image", "delete-project-image", "delete-project",
                    "add-project", "update-project"} -> "redirect:/admin#projects"
      [] route \in {"upload-certificate", "delete-certificate"}
            -> "redirect:/admin#certificates"
      [] route \in {"upload-gallery", "update-gallery-photo", "delete-gallery-photo",
                    "update-gallery-caption"} -> "redirect:/admin#gallery"

\* Handlers registered as async (req, res) => ..., not as a multer callback.
DirectAsync == {"delete-project-image", "delete-project", "delete-certificate",
                "delete-gallery-photo", "delete-education", "update-text",
                "add-project", "update-project", "update-gallery-caption",
                "update-footer"}

\* A rejected await nobody catches: the handler's promise rejects.  The
\* request gets no answer and the process goes on or dies of the unhandled
\* rejection (by the runtime's version); a router that awaits its handlers
\* answers 500 for a direct handler.
Uncaught(route) ==
    {"none", "crash"} \cup (IF route \in DirectAsync THEN {"500"} ELSE {})

\* A store call of the route rejected: what its handler does about it.
Rejected(c, r, how) ==
    LET route == c.req[r].route
    IN  IF route \in {"upload-gallery", "update-gallery-photo"} THEN Respond(c, r, "500")
        ELSE IF route = "update-footer" THEN Respond(c, r, Redirect(route))
        ELSE IF how = "crash" THEN [Respond(c, r, "none") EXCEPT !.proc = "exited"]
        ELSE Respond(c, r, how)

Catches(route) == route \in {"upload-gallery", "update-gallery-photo", "update-footer"}

Hows(route) == IF Catches(route) THEN {"caught"} ELSE Uncaught(route)

\* The store answers a save: the update is in and the document object counts
\* as unmodified, or the save rejected and the object keeps its modified paths.
SaveDone(r) ==
    /\ proc = "listening"
    /\ req[r].pc = "save"
    /\ LET s == req[r]
       IN  \/ /\ ~s.delta.err
              /\ LET c == SetLast([Cur EXCEPT !.store = ApplyDelta(@, s.delta),
                                              !.heap[s.obj].dirty = {},
                                              !.req[r].delta = NoDelta,
                                              !.req[r].obj = NoObj], r, "ok")
                 IN  Becomes(IF s.route \in Reloads THEN CallFind(c, r)
                             ELSE Respond(c, r, Redirect(s.route)))
           \/ \E how \in Hows(s.route) :
                Becomes(Rejected(
                    SetLast([Cur EXCEPT !.hist.saveFailed = TRUE], r, "rejected"),
                    r, how))
    /\ UNCHANGED nreq

\* The store answers findById: portfolioData = the document read.
FindDone(r) ==
    /\ proc = "listening"
    /\ req[r].pc = "find"
    /\ LET s == req[r]
       IN  \/ LET o == NewObj(Cur)
                  c == SetLast([Cur EXCEPT !.heap = SetObj(@, o, Hydrate(store[1])),
                                           !.held = o], r, "ok")
              IN  Becomes(Respond(c, r, Redirect(s.route)))
           \/ \E how \in Hows(s.route) :
                Becomes(Rejected(SetLast(Cur, r, "rejected"), r, how))
    /\ UNCHANGED nreq

-----------------------------------------------------------------------------

\* connectDBAndLoadData().then(() => app.listen(...))
Startup == Connect \/ LoadData \/ SeedData

\* The routes that answer without waiting.
Direct(r) ==
    \/ GetPublic(r)
    \/ GetLogin(r)
    \/ GetAdmin(r)
    \/ PostLogin(r)
    \/ PostLogout(r)

\* The admin routes that replace an asset or a text of a section.
Replaces(r) ==
    \/ UpdateCarousel(r)
    \/ UploadPhoto(r)
    \/ UpdateProjectSummary(r)
    \/ UpdateGalleryPhoto(r)

\* The admin routes that remove a record.
Removes(r) ==
    \/ DeleteProjectImage(r)
    \/ DeleteProject(r)
    \/ DeleteCertificate(r)
    \/ DeleteGalleryPhoto(r)
    \/ DeleteEducation(r)

\* The admin routes that add a record or edit its text.
Edits(r) ==
    \/ UploadProjectImage(r)
    \/ UploadCertificate(r)
    \/ UploadGallery(r)
    \/ AddEducation(r)
    \/ UpdateText(r)
    \/ AddProject(r)
    \/ UpdateProject(r)
    \/ UpdateGalleryCaption(r)
    \/ UpdateFooter(r)

\* The continuations of the awaits.
Resumes(r) ==
    \/ UploadDone(r)
    \/ DestroyDone(r)
    \/ SaveDone(r)
    \/ FindDone(r)

\* Requests arrive at any time: a handler that awaits leaves the event loop
\* to the next request.
Next ==
    \/ Startup
    \/ \E r \in Slots : Direct(r) \/ Replaces(r) \/ Removes(r) \/ Edits(r) \/ Resumes(r)

Spec == Init /\ [][Next]_vars

\* The single operator of spec section 5: a request is sent once the one
\* before it is answered or abandoned.
Serial ==
    \/ Startup
    \/ Direct(1) \/ Replaces(1) \/ Removes(1) \/ Edits(1) \/ Resumes(1)

SpecSerial == Init /\ [][Serial]_vars

\* The image sequences a stored project may have: URLs of the asset store and
\* of files served from public/, none of them twice.
MaxImages == 3

ImageSeqs ==
    {im \in UNION {[1..n -> {"Ui1", "Ui2", "Li3"}] : n \in 0..MaxImages} :
        \A i, j \in DOMAIN im : i # j => im[i] # im[j]}

\* The process started on a store whose project has one of these sequences.
InitImages ==
    /\ proc = "connecting"
    /\ loggedIn = FALSE
    /\ held = NoObj
    /\ heap = << >>
    /\ store \in {<<[SeedDoc EXCEPT !.projects[1].images = im]>> : im \in ImageSeqs}
    /\ assets = {AssetOf(u) : u \in SeedStoreUrls}
    /\ req = [s \in Slots |-> Idle]
    /\ nreq = 0
    /\ nup = 0
    /\ issued = {}
    /\ hist = [overlap |-> FALSE, saveFailed |-> FALSE, called |-> {}]

\* The single operator deleting project images, one request at a time.
DeletingImages ==
    \/ Connect
    \/ LoadData
    \/ PostLogin(1)
    \/ DeleteProjectImage(1)
    \/ DestroyDone(1)
    \/ SaveDone(1)
    \/ FindDone(1)

SpecImages == InitImages /\ [][DeletingImages]_vars

\* A stored project.
Project(id, images) ==
    [id |-> StrId(id), title |-> "t0", description |-> "t0", githubLink |-> "t0",
     images |-> images]

\* The projects a store may hold: p1 and another project, in either order,
\* no URL in both.
ProjectSeqs ==
    UNION {{<<Project("p1", a), Project("p2", b)>>, <<Project("p2", b), Project("p1", a)>>} :
              <<a, b>> \in {x \in ImageSeqs \X ImageSeqs :
                               \A i \in DOMAIN x[1], j \in DOMAIN x[2] : x[1][i] # x[2][j]}}

\* The process started on a store with these projects.
InitProjects ==
    /\ proc = "connecting"
    /\ loggedIn = FALSE
    /\ held = NoObj
    /\ heap = << >>
    /\ store \in {<<[SeedDoc EXCEPT !.projects = ps]>> : ps \in ProjectSeqs}
    /\ assets = {AssetOf(u) : u \in SeedStoreUrls}
    /\ req = [s \in Slots |-> Idle]
    /\ nreq = 0
    /\ nup = 0
    /\ issued = {}
    /\ hist = [overlap |-> FALSE, saveFailed |-> FALSE, called |-> {}]

\* The single operator deleting projects, one request at a time.
DeletingProjects ==
    \/ Connect
    \/ LoadData
    \/ PostLogin(1)
    \/ DeleteProject(1)
    \/ DestroyDone(1)
    \/ SaveDone(1)
    \/ FindDone(1)

SpecProjects == InitProjects /\ [][DeletingProjects]_vars

\* The URLs delete(assetURL) may be given, by their characters: a host or
\* none, the upload marker (once, twice or not at all), and what follows.
MaxTail == 6

TailChars == {"v", "1", "/", ".", "a"}

Tails == UNION {[1..n -> TailChars] : n \in 0..MaxTail}

UrlInputs ==
    {pre \o mk \o tl :
        pre \in {<<>>, <<"cloudinary.com">>, <<"example.com">>},
        mk \in {<<>>, <<"/", "upload", "/">>,
                 <<"/", "upload", "/", "a", "/", "upload", "/">>},
        tl \in Tails}

\* The public ids of the assets the store holds when the calls are made.
UrlAssets == {<<"a">>, <<"a", "/", "a">>}

\* A handler about to call deleteCloudinaryAsset(extractPublicId(url)).
InitUrls ==
    /\ proc = "listening"
    /\ loggedIn = TRUE
    /\ held = 1
    /\ heap = SetObj(<< >>, 1, Hydrate(SeedDoc))
    /\ store = <<SeedDoc>>
    /\ assets = UrlAssets
    /\ req \in {[s \in Slots |->
                    IF s = 1
                    THEN [Idle EXCEPT !.route = "delete(assetURL)", !.pc = "call",
                                      !.det = u]
                    ELSE Idle] : u \in UrlInputs}
    /\ nreq = 1
    /\ nup = 0
    /\ issued = {}
    /\ hist = [overlap |-> FALSE, saveFailed |-> FALSE, called |-> {}]

\* deleteCloudinaryAsset has returned to its caller.
Returned(c, r) == [c EXCEPT !.req[r].pc = "done", !.req[r].resp = "returned"]

\* deleteCloudinaryAsset(extractPublicId(url)): if (!publicId) return;
\* otherwise cloudinary.uploader.destroy(publicId) is awaited.
DeleteAsset(r) ==
    /\ req[r].pc = "call"
    /\ LET publicId == extractPublicIdChars(req[r].det)
       IN  Becomes(IF Falsy(publicId) THEN Returned(Cur, r)
                   ELSE CallDestroy(Cur, r, publicId))
    /\ UNCHANGED nreq

\* destroy answers or throws: either is logged, and the call returns.
DeleteAssetReturns(r) ==
    /\ req[r].route = "delete(assetURL)"
    /\ req[r].pc = "destroy"
    /\ LET publicId == req[r].trace[Len(req[r].trace)].arg
       IN  \E res \in DestroyResults(publicId) :
              Becomes(Returned(
                  SetLast([Cur EXCEPT !.assets = IF res = "ok" THEN @ \ {publicId} ELSE @],
                          r, res), r))
    /\ UNCHANGED nreq

DeletingAssets == DeleteAsset(1) \/ DeleteAssetReturns(1)

SpecUrls == InitUrls /\ [][DeletingAssets]_vars

-----------------------------------------------------------------------------
(* What a request's trace tells.                                           *)

Done(r) == req[r].pc = "done"

Quiet == \A s \in Slots : ~InFlight(s)

ReadRoutes == DOMAIN Views \cup {"GET /admin"}

MutatingRoutes ==
    {"update-carousel", "upload-photo", "update-project-summary",
     "upload-project-image", "delete-project-image", "delete-project",
     "upload-certificate", "upload-gallery", "update-gallery-photo",
     "delete-certificate", "delete-gallery-photo", "add-education",
     "delete-education", "update-text", "add-project", "update-project",
     "update-gallery-caption", "update-footer"}

\* The positions of a trace that hold a call or a change of the given kind.
At(tr, op) == {i \in 1..Len(tr) : tr[i].op = op}

\* The positions where the held document was changed.
HeldChanges(tr) == {i \in At(tr, "change") : tr[i].res = ""}

Rejects(tr) == \E i \in 1..Len(tr) : tr[i].res = "rejected"

\* The request answered with its route's redirect.
Redirected(r) ==
    /\ Done(r)
    /\ req[r].route \in MutatingRoutes
    /\ req[r].resp = Redirect(req[r].route)

-----------------------------------------------------------------------------
(* 4.1 The write-through cache.                                            *)

\* C1: with requests handled one at a time (SpecSerial) and no persist
\* failure, a read request (GET /, /projects, /certificates, /about, /admin)
\* renders a document equal to the persisted document, as the last completed
\* write left it.
C1_ReadRendersPersisted ==
    \A r \in Slots :
        (Done(r) /\ req[r].route \in ReadRoutes /\ req[r].body # <<>>
            /\ ~hist.saveFailed)
        => req[r].body = store

\* A read answered after a write changed the persisted document.
C1_ReadAfterWrite ==
    \E r \in Slots :
        /\ Done(r) /\ req[r].route \in ReadRoutes /\ req[r].body # <<>>
        /\ ~hist.saveFailed
        /\ store # <<SeedDoc>>

\* C2: every mutating admin request that changed the held document and was
\* answered with its redirect did, in this order, (a) the change on the held
\* document, (b) a persist and (c) a reload from the store.
C2_ChangePersistReload ==
    \A r \in Slots :
        (Redirected(r) /\ HeldChanges(req[r].trace) # {} /\ ~Rejects(req[r].trace))
        => \E i \in HeldChanges(req[r].trace) :
             \E j \in At(req[r].trace, "save") :
               \E k \in At(req[r].trace, "find") : i < j /\ j < k

\* C3: whenever no request is in flight, every asset-store URL of the
\* persisted document refers to an asset the asset store still holds.
C3_NoDanglingReference ==
    (proc = "listening" /\ Quiet)
    => \A u \in DocUrls(store[1]) : IsStoreUrl(u) => AssetOf(u) \in assets

\* C4: when the persist of a request fails, the request is answered with a
\* server error, nothing is reloaded (the held reference stays the same
\* object, with the change), and the store keeps its content.
C4_PersistFailureAborts ==
    [][\A r \in Slots :
          (req[r].pc = "save" /\ req'[r].pc # "save" /\ Rejects(req'[r].trace))
          => /\ req'[r].pc = "done"
             /\ req'[r].resp = "500"
             /\ At(req'[r].trace, "find") = {}
             /\ held' = held
             /\ heap'[held'].doc = heap[held].doc
             /\ store' = store]_vars

-----------------------------------------------------------------------------
(* 4.2 The asset lifecycle.                                                *)

ReplaceRoutes ==
    {"update-carousel", "upload-photo", "update-project-summary",
     "update-gallery-photo"}

\* The public id the asset store knows a URL by.
IdOf(u) == extractPublicId(u).s

\* The URLs of the public ids a request asked the asset store to delete.
Deleted(tr) ==
    {u \in SeedStoreUrls \cup {UploadUrls[k] : k \in DOMAIN UploadUrls} :
        \E j \in At(tr, "destroy") : tr[j].arg = IdOf(u)}

\* A request that carried a file to a replace route, persisted and was
\* answered with the route's redirect.
Replaced(r) ==
    /\ Redirected(r)
    /\ req[r].route \in ReplaceRoutes
    /\ req[r].file # NoUrl
    /\ At(req[r].trace, "save") # {}

\* The request changed a record's URL in the held document from an old URL to
\* its file's, after one delete call for the old URL when that is a URL of the
\* asset store (and none otherwise), and no URL it meant to replace is left in
\* the held or the persisted document.
ReplacedOldByNew(r) ==
    LET tr == req[r].trace
    IN  /\ \E i \in HeldChanges(tr) :
              /\ tr[i].add = {req[r].file}
              /\ \E old \in tr[i].drop :
                    /\ tr[i].drop = {old}
                    /\ IF IsStoreUrl(old)
                       THEN \E j \in At(tr, "destroy") :
                               /\ At(tr, "destroy") = {j}
                               /\ j < i
                               /\ tr[j].arg = IdOf(old)
                       ELSE At(tr, "destroy") = {}
        /\ \A i \in HeldChanges(tr) :
              tr[i].drop \cap (DocUrls(heap[held].doc) \cup DocUrls(store[1])) = {}
        /\ Deleted(tr) \cap (DocUrls(heap[held].doc) \cup DocUrls(store[1])) = {}

RemoveOneRoutes == {"delete-certificate", "delete-gallery-photo", "delete-education"}

\* A request to remove a record owning one asset that found a record, with
\* no call to the document store rejected.
Removed(r) ==
    /\ Done(r)
    /\ req[r].route \in RemoveOneRoutes
    /\ req[r].trace # <<>>
    /\ ~Rejects(req[r].trace)

\* The request cut one record out of the held document, persisted and was
\* answered with the redirect; before the cut it issued exactly one delete
\* call, for the public id of the record's URL, when that URL is of the asset
\* store's shape, and none when it is absent or of another shape.
RemovedWithItsAsset(r) ==
    LET tr == req[r].trace
    IN  /\ req[r].resp = Redirect(req[r].route)
        /\ \E i \in HeldChanges(tr) :
              /\ tr[i].cut = 1
              /\ \E j \in At(tr, "save") : i < j /\ tr[j].res = "ok"
              /\ IF \E old \in tr[i].drop : IsStoreUrl(old)
                 THEN \E j \in At(tr, "destroy") :
                         /\ At(tr, "destroy") = {j}
                         /\ j < i
                         /\ {tr[j].arg} = {IdOf(old) : old \in tr[i].drop}
                 ELSE At(tr, "destroy") = {}

DeletesBeforePersist(r) ==
    LET tr == req[r].trace
    IN  \A j \in At(tr, "save") : \A i \in HeldChanges(tr) :
            i < j => \A u \in tr[i].drop :
                        IsStoreUrl(u)
                        => \E k \in At(tr, "destroy") : k < i /\ tr[k].arg = IdOf(u)

LastDestroy(tr) ==
    CHOOSE j \in At(tr, "destroy") : \A k \in At(tr, "destroy") : k <= j

\* C8: whatever the asset store answered to the delete calls of a removal or
\* replacement request (deleted, not found, another result, a thrown error),
\* the handler went on: unless a call to the document store was rejected, the
\* request changed the document after its last delete call, persisted it and
\* was answered with the route's redirect.
C8_DeleteOutcomeNotSurfaced ==
    \A r \in Slots :
        LET tr == req[r].trace
        IN  (Done(r) /\ At(tr, "destroy") # {} /\ ~Rejects(tr))
            => /\ req[r].resp = Redirect(req[r].route)
               /\ \E i \in At(tr, "change") : \E j \in At(tr, "save") :
                     LastDestroy(tr) < i /\ i < j /\ tr[j].res = "ok"

\* A request redirected as usual after its delete call threw.
C8_RedirectedAfterThrow ==
    \E r \in Slots :
        /\ Redirected(r)
        /\ \E j \in At(req[r].trace, "destroy") : req[r].trace[j].res = "throw"

-----------------------------------------------------------------------------
(* 4.3 The collection editors.                                             *)

\* seq without its k-th element.
Without(seq, k) ==
    [n \in 1..(Len(seq) - 1) |-> IF n < k THEN seq[n] ELSE seq[n + 1]]

\* A string of decimal digits only, and its value.
PurelyNumeric(str) ==
    Chars(str) # <<>> /\ \A i \in DOMAIN Chars(str) : Chars(str)[i] \in Digits

DecimalValue(str) == digitsValue(Chars(str), 1, Len(Chars(str)), 0)

\* The step of a delete-education request that cuts the education sequence.
EduCut(r) ==
    /\ req'[r].route = "delete-education"
    /\ req'[r].pc = "save"
    /\ req[r].pc # "save"

\* The step removes the first record whose id matches the identifier; with
\* no such record and a purely numeric identifier smaller than the length, it
\* removes the record at that position.
EduCutByIdThenPosition(r) ==
    LET edu == heap[held].doc.education
        after == heap'[held'].doc.education
        id == req'[r].id
        byId == {i \in 1..Len(edu) : LooseEq(edu[i].id, id)}
    IN  /\ byId # {}
           => after = Without(edu, CHOOSE i \in byId : \A k \in byId : i <= k)
        /\ (byId = {} /\ PurelyNumeric(id) /\ DecimalValue(id) < Len(edu))
           => after = Without(edu, DecimalValue(id) + 1)

-----------------------------------------------------------------------------
(* 4.1 The guard.                                                          *)

\* C10: no handler meets an absent held reference.  The gate answers 503 to
\* whatever arrives while the held reference is absent; the server listens
\* only once the reference is set, and from then on the reference is a
\* document at every step of every handler, also when another request
\* replaced it during an await.
C10_HeldNeverAbsent ==
    /\ \A admin \in BOOLEAN : \A r \in Slots :
           LET c == [Cur EXCEPT !.held = NoObj]
               n == Respond(c, r, Gate(c, admin))
           IN  /\ Gate(c, admin) = "503"
               /\ n.req[r].resp = "503"
               /\ n.held = NoObj /\ n.store = store
               /\ n.assets = assets /\ n.loggedIn = loggedIn
    /\ (proc = "listening" \/ \E r \in Slots : InFlight(r))
       => held # NoObj /\ held \in DOMAIN heap

\* A handler resumed after another request had replaced the held reference:
\* it changed the record it had found in the old document and has called save
\* on the new one.
C10_ResumedAfterReload ==
    \E r \in Slots :
        /\ req[r].pc = "save"
        /\ \E i \in At(req[r].trace, "change") : req[r].trace[i].res = "stale"

-----------------------------------------------------------------------------
(* 4.4 Authentication.                                                     *)

AdminRoutes == MutatingRoutes \cup {"GET /admin"}

\* The step in which a request arrives and takes slot r.
Arrives(r) ==
    /\ nreq' = nreq + 1
    /\ ~InFlight(r)
    /\ \A s \in Slots : s < r => InFlight(s)

\* C11: an /admin request (GET /admin or a POST /admin/* route) that arrives
\* while the login flag is not set is answered with the redirect to /login in
\* the step of its arrival; it made no call (no upload, no delete, no persist)
\* and the held document, the persisted document, the asset store and the
\* login flag are as before.
C11_UnauthenticatedAdminRejected ==
    [][\A r \in Slots :
          (Arrives(r) /\ req'[r].route \in AdminRoutes /\ ~loggedIn)
          => /\ req'[r].pc = "done"
             /\ req'[r].resp = "redirect:/login"
             /\ req'[r].trace = <<>>
             /\ req'[r].file = NoUrl
             /\ held' = held
             /\ heap'[held'] = heap[held]
             /\ store' = store
             /\ assets' = assets
             /\ nup' = nup
             /\ hist'.called = hist.called
             /\ loggedIn' = loggedIn]_vars

\* An upload request carrying a file turned away at the gate.
C11_UploadTurnedAway ==
    \E r \in Slots :
        /\ Done(r)
        /\ req[r].route = "upload-gallery" /\ req[r].hasFile
        /\ req[r].resp = "redirect:/login"
        /\ assets = {AssetOf(u) : u \in SeedStoreUrls}

\* C12: the login state is one flag of the process.  No request carries an
\* identity the gate could read, so whoever sends it: an admin request is
\* redirected to /login exactly when the flag is not set; a POST /login
\* answered with the redirect to /admin sets the flag; a POST /logout, whether
\* the flag is set or not, clears it and is redirected to /; nothing else
\* changes the flag.
C12_OneLoginFlag ==
    [][/\ \A r \in Slots :
            Arrives(r)
            => /\ req'[r].route \in AdminRoutes
                  => (req'[r].resp = "redirect:/login" <=> ~loggedIn)
               /\ req'[r].route = "POST /logout"
                  => ~loggedIn' /\ req'[r].resp = "redirect:/"
               /\ (req'[r].route = "POST /login" /\ req'[r].resp = "redirect:/admin")
                  => loggedIn'
               /\ req'[r].route \notin {"POST /login", "POST /logout"}
                  => loggedIn' = loggedIn
       /\ nreq' = nreq => loggedIn' = loggedIn]_vars

\* A logout answered while another request, let through the gate before it,
\* is still at work.
C12_LoggedOutByAnother ==
    \E r, s \in Slots :
        /\ Done(r) /\ req[r].route = "POST /logout" /\ req[r].resp = "redirect:/"
        /\ ~loggedIn
        /\ InFlight(s) /\ req[s].route \in MutatingRoutes

\* C13: POST /login sets the login flag, and redirects to /admin, exactly when
\* the username and the password both equal the configured ones; any other
\* attempt leaves the flag as it was and renders the login view with the one
\* message, the same whether the username, the password or both were wrong.
C13_LoginIffBothMatch ==
    [][\A r \in Slots :
          (Arrives(r) /\ req'[r].route = "POST /login")
          => IF req'[r].id = ADMIN_USERNAME /\ req'[r].t = ADMIN_PASSWORD
             THEN loggedIn' /\ req'[r].resp = "redirect:/admin"
             ELSE /\ loggedIn' = loggedIn
                  /\ req'[r].resp = "login:Invalid username or password."]_vars

\* The right username with a wrong password, sent while the flag was set:
\* refused, and the flag still set.
C13_WrongPasswordRefused ==
    \E r \in Slots :
        /\ Done(r) /\ req[r].route = "POST /login"
        /\ req[r].id = ADMIN_USERNAME /\ req[r].t # ADMIN_PASSWORD
        /\ req[r].resp = "login:Invalid username or password."
        /\ loggedIn

-----------------------------------------------------------------------------
(* 4.5 Start-up.                                                           *)

StartingUp == {"connecting", "loading", "seeding"}

\* C14: while the process starts up no request is served and the held
\* reference is absent; a load that finds no document goes on to seed (or
\* exits), and the seed document is in the store when the held reference is
\* set; the process listens only with the held reference set to a copy of the
\* persisted document; a failure of connecting, loading or seeding ends the
\* process, which never served a request.
C14_ServesOnlyOncePopulated ==
    [][/\ proc \in StartingUp
          => /\ held = NoObj /\ nreq = 0 /\ nreq' = 0
             /\ \A r \in Slots : req'[r] = Idle
             /\ proc' \in StartingUp \cup {"listening", "exited"}
             /\ proc' = "listening"
                => /\ held' # NoObj
                   /\ store' # <<>>
                   /\ heap'[held'].doc = store'[1]
             /\ proc' # "listening" => held' = NoObj /\ store' = store
       /\ (proc = "loading" /\ store = <<>>) => proc' \in {"loading", "seeding", "exited"}
       /\ (proc = "seeding" /\ proc' = "listening") => store' = <<SeedDoc>>
       /\ nreq' > nreq => proc = "listening" /\ held # NoObj]_vars

\* The load found no document: the process is about to seed, nothing served.
C14_AboutToSeed ==
    /\ proc = "seeding" /\ store = <<>> /\ held = NoObj /\ nreq = 0

-----------------------------------------------------------------------------
(* 4.6 Requests that find nothing to do.                                   *)

ByIdRoutes ==
    {"upload-project-image", "delete-project-image", "delete-project",
     "update-project", "update-gallery-photo", "delete-certificate",
     "delete-gallery-photo", "update-gallery-caption"}

\* The step in which the handler of request r looks its record up: the step of
\* its arrival, or, in a route that takes a file, the step in which multer
\* hands over without an error.
LooksUp(r) ==
    \/ Arrives(r) /\ loggedIn /\ req'[r].pc # "upload"
    \/ /\ req[r].pc = "upload" /\ req'[r].pc # "upload"
       /\ req'[r].resp # "redirect:/admin?uploadError"

\* Some record of the route's collection has the identifier for its id:
\* leniently compared (string against number) in certificates and gallery,
\* exactly in projects.
MatchesSome(route, doc, id) ==
    IF route = "delete-certificate"
    THEN \E i \in 1..Len(doc.certificates) : LooseEq(doc.certificates[i].id, id)
    ELSE IF route \in {"update-gallery-photo", "delete-gallery-photo",
                       "update-gallery-caption"}
    THEN \E i \in 1..Len(doc.gallery) : LooseEq(doc.gallery[i].id, id)
    ELSE \E i \in 1..Len(doc.projects) : StrictEq(doc.projects[i].id, id)

\* C15: an update, asset-replace or remove request on certificates, gallery
\* or projects whose identifier matches no record's id when the handler looks
\* it up is answered at once with the route's redirect; it issues no
\* asset-store delete call and no persist, and the held and the persisted
\* document are as before.
C15_NoMatchNoChange ==
    [][\A r \in Slots :
          (/\ LooksUp(r)
           /\ req'[r].route \in ByIdRoutes
           /\ ~MatchesSome(req'[r].route, heap[held].doc, req'[r].id))
          => /\ req'[r].pc = "done"
             /\ req'[r].resp = Redirect(req'[r].route)
             /\ req'[r].trace = <<>>
             /\ hist'.called = hist.called
             /\ held' = held
             /\ heap'[held'] = heap[held]
             /\ store' = store]_vars

\* A gallery photo's replacement sent with a file for an id no photo has: the
\* file is in the asset store, the request redirected, nothing else done.
C15_ReplacementWithoutTarget ==
    \E r \in Slots :
        /\ Done(r) /\ req[r].route = "update-gallery-photo"
        /\ req[r].id = "zz" /\ req[r].file # NoUrl
        /\ req[r].resp = "redirect:/admin#gallery"
        /\ req[r].trace = <<>>

-----------------------------------------------------------------------------
(* 4.7 delete-project-image, applied once and again.                       *)

HasProject(doc, id) == \E i \in 1..Len(doc.projects) : StrictEq(doc.projects[i].id, id)

\* The images of the project with the id.
ImagesOf(doc, id) ==
    doc.projects[CHOOSE i \in 1..Len(doc.projects) : StrictEq(doc.projects[i].id, id)].images

Occurs(seq, x) == \E i \in 1..Len(seq) : seq[i] = x

WithoutFirst(seq, x) ==
    Without(seq, CHOOSE i \in 1..Len(seq) : seq[i] = x /\ \A j \in 1..(i - 1) : seq[j] # x)

\* A delete-project-image request that went to work and met no rejection of
\* the document store.
DeletedImage(r) ==
    /\ Done(r) /\ req[r].route = "delete-project-image"
    /\ req[r].trace # <<>> /\ ~Rejects(req[r].trace)

\* The request is answered with the redirect, its URL is in the project's
\* images neither in the held nor in the persisted document, and it persisted
\* once.
ImageGone(r) ==
    /\ req[r].resp = "redirect:/admin#projects"
    /\ HasProject(heap[held].doc, req[r].id)
    /\ ~Occurs(ImagesOf(heap[held].doc, req[r].id), req[r].imageUrl)
    /\ ~Occurs(ImagesOf(store[1], req[r].id), req[r].imageUrl)
    /\ \E j \in At(req[r].trace, "save") :
          At(req[r].trace, "save") = {j} /\ req[r].trace[j].res = "ok"

\* The request's delete calls: one, for the public id of its URL.
OneCallForIt(r) ==
    \E j \in At(req[r].trace, "destroy") :
        /\ At(req[r].trace, "destroy") = {j}
        /\ req[r].trace[j].arg = IdOf(req[r].imageUrl)

\* What the arrival of a delete-project-image request for an existing project
\* does: with the URL among the project's images it goes to work; without, it
\* is answered at once, no delete call, no persist, no change.
OnceThenNoOp(r) ==
    LET im == ImagesOf(heap[held].doc, req'[r].id)
    IN  IF Occurs(im, req'[r].imageUrl)
        THEN req'[r].pc = (IF IsStoreUrl(req'[r].imageUrl) THEN "destroy" ELSE "save")
        ELSE /\ req'[r].pc = "done"
             /\ req'[r].resp = "redirect:/admin#projects"
             /\ req'[r].trace = <<>>
             /\ hist'.called = hist.called
             /\ assets' = assets
             /\ held' = held
             /\ heap'[held'] = heap[held]
             /\ store' = store

\* The step in which the handler cuts the image out.
CutsImage(r) ==
    /\ req'[r].route = "delete-project-image"
    /\ req[r].pc # "save" /\ req'[r].pc = "save"

-----------------------------------------------------------------------------
(* 4.8 update-gallery-caption.                                             *)

\* The first photo of the document's gallery the identifier matches.
PhotoAt(doc, id) ==
    CHOOSE k \in 1..Len(doc.gallery) :
        /\ LooseEq(doc.gallery[k].id, id)
        /\ \A j \in 1..(k - 1) : ~LooseEq(doc.gallery[j].id, id)

\* doc with the caption of that photo set, and nothing else touched.
Captioned(doc, id, caption) ==
    [doc EXCEPT !.gallery[PhotoAt(doc, id)].caption = caption]

\* The step in which an update-gallery-caption request for an existing photo
\* arrives: the held document changes in that caption alone (the record's id
\* and url, the other records, their order and the other fields stay), a
\* persist is called, and no asset-store call is made.
CaptionSet(r) ==
    /\ held' = held
    /\ heap'[held'].doc = Captioned(heap[held].doc, req'[r].id, req'[r].t)
    /\ req'[r].pc = "save"
    /\ At(req'[r].trace, "destroy") = {}
    /\ hist'.called = hist.called
    /\ assets' = assets
    /\ nup' = nup

\* The step in which the persist of an update-gallery-caption request lands.
CaptionLands(r) ==
    /\ req[r].route = "update-gallery-caption"
    /\ req[r].pc = "save"
    /\ req'[r].pc = "done"
    /\ req'[r].resp = "redirect:/admin#gallery"
    /\ ~Rejects(req'[r].trace)

\* The persisted document changes in that caption alone.
CaptionPersisted(r) ==
    /\ store'[1] = Captioned(store[1], req[r].id, req[r].t)
    /\ assets' = assets

CaptionArrives(r) ==
    /\ Arrives(r) /\ loggedIn
    /\ req'[r].route = "update-gallery-caption"
    /\ MatchesSome("update-gallery-caption", heap[held].doc, req'[r].id)

-----------------------------------------------------------------------------
(* 4.9 update-carousel.                                                    *)

\* The position a request names is what parseInt reads in :index; it is in
\* range when it is a number from 0 to the carousel's length - 1.
InRange(doc, param) ==
    /\ ~parseInt(param).nan
    /\ parseInt(param).n >= 0
    /\ parseInt(param).n < Len(doc.carousel)

\* d2 is d1 but for the slide at position k (counted from 0).
OnlySlide(d1, d2, k) ==
    /\ \A p \in Paths \ {"carousel"} : d2[p] = d1[p]
    /\ Len(d2.carousel) = Len(d1.carousel)
    /\ \A j \in 1..Len(d1.carousel) : j # k + 1 => d2.carousel[j] = d1.carousel[j]

\* The request is answered with the success redirect and has done nothing: no
\* delete call, no persist, no change.
CarouselNoOp(r) ==
    /\ req'[r].pc = "done"
    /\ req'[r].resp = "redirect:/admin#carousel"
    /\ req'[r].trace = <<>>
    /\ hist'.called = hist.called
    /\ held' = held
    /\ heap'[held'] = heap[held]
    /\ store' = store

\* A step of the handler of an update-carousel request before its persist
\* lands, and that landing.
CarouselWorks(r) ==
    /\ req'[r].route = "update-carousel"
    /\ req[r].pc \in {"upload", "destroy"}
    /\ req'[r].pc # req[r].pc
    /\ req'[r].resp # "redirect:/admin?uploadError"

CarouselLands(r) ==
    /\ req[r].route = "update-carousel"
    /\ req[r].pc = "save"
    /\ req'[r].pc = "done"
    /\ req'[r].resp = "redirect:/admin#carousel"
    /\ ~Rejects(req'[r].trace)

-----------------------------------------------------------------------------
(* 4.10 A rejected upload.                                                 *)

FileRoutes ==
    {"update-carousel", "upload-photo", "update-project-summary",
     "upload-project-image", "upload-certificate", "upload-gallery",
     "update-gallery-photo", "add-education"}

\* The step in which multer reports an error to the callback of request r.
UploadRejected(r) ==
    /\ req[r].pc = "upload"
    /\ req'[r].resp = "redirect:/admin?uploadError"

\* C19: in every route that accepts a file, a request whose upload is
\* rejected is redirected to the admin view with an error message in the
\* query string; the held and the persisted document are not modified, no
\* asset-store delete is issued and nothing is persisted.  The requests at
\* multer are those of the routes that accept a file, and no other request is
\* answered so.
C19_RejectedUploadChangesNothing ==
    [][\A r \in Slots :
          /\ UploadRejected(r)
             => /\ req'[r].pc = "done"
                /\ req'[r].route \in FileRoutes
                /\ req'[r].trace = <<>>
                /\ req'[r].file = NoUrl
                /\ hist'.called = hist.called
                /\ assets' = assets
                /\ held' = held
                /\ heap'[held'] = heap[held]
                /\ store' = store
          /\ req'[r].pc = "upload" => req'[r].route \in FileRoutes
          /\ (req'[r].resp = "redirect:/admin?uploadError" /\ req'[r] # req[r])
             => req[r].pc = "upload"]_vars

\* An add-education request turned back by its upload.
C19_EducationLogoRejected ==
    \E r \in Slots :
        /\ Done(r) /\ req[r].route = "add-education"
        /\ req[r].resp = "redirect:/admin?uploadError"
        /\ Len(store[1].education) = Len(SeedDoc.education)

-----------------------------------------------------------------------------
(* 4.11 Every request is answered.                                         *)

\* A mutating admin request past both gates whose handler is through: it
\* answered, or its promise rejected and it never will ("none").
Through(r) ==
    /\ Done(r)
    /\ req[r].route \in MutatingRoutes
    /\ req[r].resp # "redirect:/login"

\* The request answered with a redirect to the admin view or one of its
\* sub-views.
RedirectedToAdmin(r) ==
    req[r].resp \in {Redirect(req[r].route), "redirect:/admin?uploadError"}

\* C20: every mutating admin request that has passed the gates is answered,
\* and with a redirect to an admin view: when it succeeds and when its handler
\* catches a failure of the upload or of the persist.  (A request has at most
\* one answer: Respond ends it.)
C20_AnsweredWithRedirect ==
    \A r \in Slots : Through(r) => RedirectedToAdmin(r)

-----------------------------------------------------------------------------
(* 5. Requests that interleave.                                            *)

\* The path of the document a route's handler marks modified.
PathOf(route) ==
    CASE route = "update-carousel" -> "carousel"
      [] route \in {"upload-photo", "update-text"} -> "about"
      [] route = "update-project-summary" -> "projectSummary"
      [] route \in {"upload-project-image", "delete-project-image", "delete-project",
                    "add-project", "update-project"} -> "projects"
      [] route \in {"upload-certificate", "delete-certificate"} -> "certificates"
      [] route \in {"upload-gallery", "update-gallery-photo", "delete-gallery-photo",
                    "update-gallery-caption"} -> "gallery"
      [] route \in {"add-education", "delete-education"} -> "education"
      [] route = "update-footer" -> "footerInfo"

\* The document shows what the request s wrote: the text or the file's URL it
\* set, the record it added, or no record left of the id it removed.
Wrote(s, doc) ==
    CASE s.route = "update-carousel" ->
            InRange(doc, s.id)
            => /\ doc.carousel[parseInt(s.id).n + 1].title = s.t
               /\ s.file # NoUrl => doc.carousel[parseInt(s.id).n + 1].url = s.file
      [] s.route = "upload-photo" -> doc.about.photoUrl = s.file
      [] s.route = "update-text" -> doc.about.summary = s.t
      [] s.route = "update-project-summary" ->
            /\ doc.projectSummary.title = s.t
            /\ s.file # NoUrl => doc.projectSummary.image = s.file
      [] s.route = "upload-project-image" ->
            HasProject(doc, s.id) => Occurs(ImagesOf(doc, s.id), s.file)
      [] s.route = "delete-project-image" ->
            HasProject(doc, s.id) => ~Occurs(ImagesOf(doc, s.id), s.imageUrl)
      [] s.route = "delete-project" -> ~HasProject(doc, s.id)
      [] s.route = "add-project" ->
            \E i \in 1..Len(doc.projects) :
                doc.projects[i].title = s.t /\ doc.projects[i].images = <<>>
      [] s.route = "update-project" ->
            HasProject(doc, s.id)
            => \E i \in 1..Len(doc.projects) :
                  StrictEq(doc.projects[i].id, s.id) /\ doc.projects[i].title = s.t
      [] s.route = "upload-certificate" ->
            \E i \in 1..Len(doc.certificates) : doc.certificates[i].pdfUrl = s.file
      [] s.route = "delete-certificate" -> ~MatchesSome(s.route, doc, s.id)
      [] s.route = "upload-gallery" ->
            \E i \in 1..Len(doc.gallery) : doc.gallery[i].url = s.file
      [] s.route = "update-gallery-photo" ->
            MatchesSome(s.route, doc, s.id)
            => doc.gallery[PhotoAt(doc, s.id)].url = s.file
      [] s.route = "delete-gallery-photo" -> ~MatchesSome(s.route, doc, s.id)
      [] s.route = "update-gallery-caption" ->
            MatchesSome(s.route, doc, s.id)
            => doc.gallery[PhotoAt(doc, s.id)].caption = s.t
      [] s.route = "add-education" ->
            \E i \in 1..Len(doc.education) : doc.education[i].imageUrl = s.file
      [] s.route = "delete-education" ->
            ~\E i \in 1..Len(doc.education) : LooseEq(doc.education[i].id, s.id)
      [] s.route = "update-footer" ->
            doc.footerInfo.present /\ doc.footerInfo.name = s.t

\* The request changed a document object, its persist was accepted, no call
\* of it was rejected and it was answered with the route's redirect.
Persisted(r) ==
    /\ Redirected(r)
    /\ ~Rejects(req[r].trace)
    /\ At(req[r].trace, "change") # {}
    /\ \E j \in At(req[r].trace, "save") : req[r].trace[j].res = "ok"

\* C21: when two admin write requests have interleaved and both have
\* completed, persisted and all, a change that one of them made to a field
\* the other does not touch (they write different sections of the document)
\* is present in the persisted document.
C21_LastWriterWinsPerField ==
    \A r, s \in Slots :
        (/\ r # s
         /\ Persisted(r) /\ Persisted(s)
         /\ ~req[r].solo /\ ~req[s].solo
         /\ PathOf(req[r].route) # PathOf(req[s].route))
        => Wrote(req[r], store[1])

-----------------------------------------------------------------------------
(* 5.1 delete-project.                                                     *)

\* The URLs of a sequence that are of the asset store's shape, in order.
StoreShaped(images) == SelectSeq(images, IsStoreUrl)

\* The position of the project with the id.
ProjectAt(doc, id) ==
    CHOOSE i \in 1..Len(doc.projects) : StrictEq(doc.projects[i].id, id)

\* doc without the project that has the id, the other projects as they were.
WithoutProject(doc, id) ==
    [doc EXCEPT !.projects = Without(@, ProjectAt(doc, id))]

\* What a step of the handler does that has issued k delete calls so far: the
\* call for the next URL of the store's shape, the documents as they were, or,
\* all calls issued, the removal of the project from the held document.
NextCallOrCut(r, k) ==
    LET doc == heap[held].doc
        urls == StoreShaped(ImagesOf(doc, req'[r].id))
        tr == req'[r].trace
    IN  /\ held' = held
        /\ store' = store
        /\ IF k < Len(urls)
           THEN /\ req'[r].pc = "destroy"
                /\ Cardinality(At(tr, "destroy")) = k + 1
                /\ tr[Len(tr)].op = "destroy"
                /\ tr[Len(tr)].arg = IdOf(urls[k + 1])
                /\ heap'[held'].doc = doc
           ELSE /\ req'[r].pc = "save"
                /\ Cardinality(At(tr, "destroy")) = k
                /\ heap'[held'].doc = WithoutProject(doc, req'[r].id)

DeleteProjectStarts(r) ==
    /\ Arrives(r) /\ loggedIn
    /\ req'[r].route = "delete-project"
    /\ HasProject(heap[held].doc, req'[r].id)

DeleteProjectGoesOn(r) ==
    /\ req[r].route = "delete-project"
    /\ req[r].pc = "destroy"
    /\ req'[r] # req[r]

DeleteProjectLands(r) ==
    /\ req[r].route = "delete-project"
    /\ req[r].pc = "save"
    /\ req'[r].pc = "find"

-----------------------------------------------------------------------------
(* 5.2 The identifier derived from a URL.                                  *)

\* The upload marker stands at position m of s, and nowhere before.
MarkerAt(s, m) ==
    /\ m + 2 <= Len(s)
    /\ s[m] = "/" /\ s[m + 1] = "upload" /\ s[m + 2] = "/"
    /\ \A j \in 1..(m - 1) :
          ~(j + 2 <= Len(s) /\ s[j] = "/" /\ s[j + 1] = "upload" /\ s[j + 2] = "/")

\* A version segment v<digits>/ stands at position a of s and ends at e.
VersionAt(s, a, e) ==
    /\ a + 2 <= e /\ e <= Len(s)
    /\ s[a] = "v"
    /\ \A j \in (a + 1)..(e - 1) : s[j] \in Digits
    /\ s[e] = "/"

\* s is <prefix>/upload/<path>.<ext> or <prefix>/upload/v<digits>/<path>.<ext>
\* with the path from b to p - 1 and the last dot at p.
FormAt(s, b, p) ==
    /\ \E m \in 1..Len(s) :
          /\ MarkerAt(s, m)
          /\ \/ b = m + 3 /\ ~\E e \in 1..Len(s) : VersionAt(s, m + 3, e)
             \/ VersionAt(s, m + 3, b - 1)
    /\ b <= p /\ p <= Len(s)
    /\ s[p] = "."
    /\ \A j \in (p + 1)..Len(s) : s[j] # "."

\* s is an asset-store URL of one of the two forms, its path not empty.
Derivable(s) ==
    /\ Includes(s, "cloudinary.com")
    /\ \E b, p \in 1..Len(s) : FormAt(s, b, p) /\ b < p

DerivedPath(s) ==
    LET bp == CHOOSE x \in (1..Len(s)) \X (1..Len(s)) : FormAt(s, x[1], x[2])
    IN  SubSeq(s, bp[1], bp[2] - 1)

\* C23: for an asset-store URL of the form <prefix>/upload/<path>.<ext> or
\* <prefix>/upload/v<digits>/<path>.<ext>, delete makes one asset-store call,
\* with <path> for the identifier (the version segment skipped, the text from
\* the last dot on removed); for an absent URL, a URL that is not the asset
\* store's, a store URL without the upload marker or one whose identifier
\* would be empty, it makes no asset-store call; in every case it returns to
\* its caller without an error, whatever the asset store answered.
C23_IdentifierDerivation ==
    \A r \in Slots :
        (req[r].route = "delete(assetURL)" /\ req[r].pc # "call")
        => /\ IF Derivable(req[r].det)
              THEN /\ Len(req[r].trace) = 1
                   /\ req[r].trace[1].op = "destroy"
                   /\ req[r].trace[1].arg = DerivedPath(req[r].det)
                   /\ hist.called = {DerivedPath(req[r].det)}
              ELSE /\ req[r].pc = "done"
                   /\ req[r].trace = <<>>
                   /\ hist.called = {}
                   /\ assets = UrlAssets
           /\ req[r].pc = "done" => req[r].resp = "returned"
           /\ req[r].pc \in {"destroy", "done"}

\* The asset a of a URL with a version segment, and the asset a/a of a URL
\* without one, deleted.
C23_VersionSkipped ==
    \E r \in Slots :
        /\ req[r].pc = "done" /\ req[r].resp = "returned"
        /\ \/ /\ req[r].det = <<"cloudinary.com", "/", "upload", "/",
                                "v", "1", "/", "a", ".", "a">>
              /\ req[r].trace[1].arg = <<"a">>
              /\ assets = UrlAssets \ {<<"a">>}
           \/ /\ req[r].det = <<"cloudinary.com", "/", "upload", "/",
                                "a", "/", "a", ".", "a">>
              /\ req[r].trace[1].arg = <<"a", "/", "a">>
              /\ assets = UrlAssets \ {<<"a", "/", "a">>}

-----------------------------------------------------------------------------
(* 5.3 Read-only requests.                                                 *)

\* C24: a read-only request (GET /, /projects, /certificates, /about, /login,
\* /admin) is answered in the step of its arrival: the public views and, with
\* the login flag set, the admin view render the held document as it is at
\* that moment; GET /login renders the login form; the request makes no store
\* read or write and no asset-store call, and the held document, the persisted
\* document, the asset store, the login flag and the requests in flight are
\* as before.
C24_ReadsServedFromHeld ==
    [][\A r \in Slots :
          (Arrives(r) /\ req'[r].route \in ReadRoutes \cup {"GET /login"})
          => /\ req'[r].pc = "done"
             /\ req'[r].trace = <<>>
             /\ req'[r].resp =
                   (IF req'[r].route = "GET /login" THEN "login"
                    ELSE IF req'[r].route = "GET /admin"
                         THEN (IF loggedIn THEN "admin" ELSE "redirect:/login")
                    ELSE req'[r].route)
             /\ req'[r].body =
                   (IF req'[r].resp \in {"login", "redirect:/login"} THEN <<>>
                    ELSE <<heap[held].doc>>)
             /\ held' = held
             /\ heap'[held'] = heap[held]
             /\ store' = store
             /\ assets' = assets
             /\ nup' = nup
             /\ hist'.called = hist.called
             /\ loggedIn' = loggedIn
             /\ \A s \in Slots \ {r} :
                   InFlight(s) => req'[s] = [req[s] EXCEPT !.solo = FALSE]]_vars

\* GET / answered while the persist of a change is on its way: the view shows
\* the change, which the store does not hold yet.
C24_ReadDuringPersist ==
    \E r, s \in Slots :
        /\ Done(r) /\ req[r].route = "index"
        /\ req[r].body = <<heap[held].doc>>
        /\ req[r].body # store
        /\ req[s].pc = "save" /\ ~req[s].delta.err

-----------------------------------------------------------------------------
(* 5.4 Two removals at once.                                               *)

RemoveRoutes == RemoveOneRoutes \cup {"delete-project"}

\* The collection a remove route cuts.
CollectionOf(route) ==
    CASE route = "delete-education" -> "education"
      [] route = "delete-certificate" -> "certificates"
      [] route = "delete-gallery-photo" -> "gallery"
      [] route = "delete-project" -> "projects"

\* The position (from 1) of the first record of the route's collection whose
\* id the identifier matches, 0 when it matches none.
NamedAt(route, doc, id) ==
    1 + (CASE route = "delete-education" ->
                 FindIndex(doc.education, LAMBDA x : LooseEq(x.id, id))
           [] route = "delete-certificate" ->
                 FindIndex(doc.certificates, LAMBDA x : LooseEq(x.id, id))
           [] route = "delete-gallery-photo" ->
                 FindIndex(doc.gallery, LAMBDA x : LooseEq(x.id, id))
           [] route = "delete-project" ->
                 FindIndex(doc.projects, LAMBDA x : StrictEq(x.id, id)))

\* seq without its elements at the positions of ks.
WithoutAll(seq, ks) ==
    LET F[n \in 0..Len(seq)] ==
            IF n = 0 THEN <<>>
            ELSE IF n \in ks THEN F[n - 1] ELSE Append(F[n - 1], seq[n])
    IN  F[Len(seq)]

\* C25: two remove-by-identifier requests of one collection, the first
\* requests after the login, that overlapped, named two different records of
\* the document by their ids and both completed, persisted and all: the persisted
\* collection is the one they found without those two records, and every
\* asset-store URL the persisted document holds has a live asset.
C25_EachRemovesItsOwn ==
    \A r, s \in Slots :
        LET route == req[r].route
            a == NamedAt(route, SeedDoc, req[r].id)
            b == NamedAt(route, SeedDoc, req[s].id)
        IN  (/\ r # s /\ nreq = 3
             /\ route \in RemoveRoutes /\ req[s].route = route
             /\ Persisted(r) /\ Persisted(s)
             /\ ~req[r].solo /\ ~req[s].solo
             /\ a # 0 /\ b # 0 /\ a # b)
            => /\ store[1][CollectionOf(route)]
                    = WithoutAll(SeedDoc[CollectionOf(route)], {a, b})
               /\ \A u \in DocUrls(store[1]) : IsStoreUrl(u) => AssetOf(u) \in assets

-----------------------------------------------------------------------------
(* 5.5 A record looked up before an await and changed after it.            *)

LookupThenMutate ==
    {"update-gallery-photo", "delete-project-image", "upload-project-image"}

\* The step in which the store accepts the persist of request r.
PersistLands(r) ==
    /\ req[r].pc = "save"
    /\ req'[r].pc \in {"find", "done"}
    /\ ~Rejects(req'[r].trace)

\* No other request at work or just answered writes the section of request r.
AloneInItsSection(r) ==
    \A s \in Slots \ {r} :
        req[s].route \in MutatingRoutes => PathOf(req[s].route) # PathOf(req[r].route)

\* C26: when the store accepts the persist of an update-gallery-photo,
\* delete-project-image or upload-project-image request, the persisted
\* document holds the request's change of its record, also when another
\* request (one that writes another section of the document) replaced the
\* held reference by a reloaded copy while the request awaited its upload or
\* its asset-store call.
C26_MutationAfterAwaitPersisted ==
    [][\A r \in Slots :
          (/\ PersistLands(r)
           /\ req[r].route \in LookupThenMutate
           /\ AloneInItsSection(r))
          => Wrote(req[r], store'[1])]_vars

-----------------------------------------------------------------------------
(* 5.6 Uploaded assets.                                                    *)

\* No call of a request still on record failed: no delete call answered with
\* an error or threw, and the document store rejected nothing.
NoCallFailed ==
    \A r \in Slots : \A i \in 1..Len(req[r].trace) :
        req[r].trace[i].res \notin {"error", "throw", "rejected"}

\* C27: with requests one at a time (SpecSerial), after the first admin
\* request that follows the login has completed without a failed persist or a
\* failed asset-store call, every asset uploaded through an admin route and
\* still in the asset store is referenced by a URL of the persisted document.
C27_NoOrphanedUpload ==
    (/\ proc = "listening" /\ Quiet /\ nreq <= 2
     /\ ~hist.saveFailed /\ NoCallFailed)
    => \A k \in 1..nup :
          AssetOf(UploadUrls[k]) \in assets => UploadUrls[k] \in DocUrls(store[1])

-----------------------------------------------------------------------------
(* 5.7 delete-education with an identifier that is no record's id.         *)

\* C28: a delete-education request whose identifier matches no record's id and
\* is not entirely a decimal non-negative integer is answered at once with the
\* redirect: it removes no record, issues no asset-store delete and persists
\* nothing.
C28_NeitherIdNorNumberIsNoOp ==
    [][\A r \in Slots :
          (/\ Arrives(r) /\ loggedIn
           /\ req'[r].route = "delete-education"
           /\ ~\E i \in 1..Len(heap[held].doc.education) :
                  LooseEq(heap[held].doc.education[i].id, req'[r].id)
           /\ ~PurelyNumeric(req'[r].id))
          => /\ req'[r].pc = "done"
             /\ req'[r].resp = "redirect:/admin#general"
             /\ req'[r].trace = <<>>
             /\ hist'.called = hist.called
             /\ held' = held
             /\ heap'[held'] = heap[held]
             /\ store' = store]_vars

====
